---- MODULE Spec2Model ----
(***************************************************************************)
(* A model of the lsproxy gateway's concurrent core:                       *)
(*   - the JSON-RPC session of lsp-wrapper (lsp_process.rs, manager.rs):   *)
(*     request ids, the pending-request table, the stdin writer, the       *)
(*     detached stdout reader and the initialize handshake;                *)
(*   - the container orchestrator (container/mod.rs, orchestrator.rs,      *)
(*     container_proxy.rs, container_manager.rs): the container map, port  *)
(*     reservation, create/start/health-check and stop.                    *)
(* The two subsystems share no state; each has its own specification       *)
(* (SessionSpec, OrchSpec) over the common variable tuple.                 *)
(***************************************************************************)
EXTENDS Integers, Sequences, FiniteSets, TLC

(***************************************************************************)
(* Bounds of the model.                                                    *)
(***************************************************************************)
\* number of user request tasks on the session
MaxUsers == 2

\* the task that runs LspProcess::new / initialize
InitCaller == 0

Users == 1..MaxUsers

Callers == {InitCaller} \cup Users

(***************************************************************************)
(* Program constants of the session.                                       *)
(***************************************************************************)
\* JsonRpcMessage.id == None
NoId == 0

\* the id the wrapper Manager hard-codes in its requests (id: Some(1))
ManagerRequestId == 1

\* params of the initialized notification: json!({})
EmptyParams == -1

\* no message buffered in a caller's channel
NoMsg == [id |-> NoId, kind |-> "none", of |-> EmptyParams]

\* no task holds the stdin Mutex; the reader task, as a holder of it
Unlocked == -2

ReaderTask == -3

\* the message the initialized notification is, on the wire
InitializedNote == -1

\* positions of send_request at which the caller holds the Receiver
InFlight == {"registered", "writing", "waiting"}

\* send_request has not returned yet
NoOutcome == [kind |-> "none", of |-> EmptyParams]

VARIABLES
    \* ---- session (lsp_process.rs) ----
    sessionState,   \* position of LspProcess::new: initializing / ready / failed
    request_id,     \* LspProcess.request_id
    channels,       \* PendingRequests.channels: id -> caller owning the receiver
    pc,             \* position of each caller inside send_request
    reqId,          \* the local `id` of each caller
    explicit,       \* request.id of each caller (NoId when None)
    mailbox,        \* the message buffered in each caller's channel
    outcome,        \* what send_request returned to each caller
    stdin,          \* the messages written to the child's stdin, in order
    answered,       \* indices of stdin the child has answered
    stdout,         \* frames the child wrote and the reader has not read yet
    childAlive,     \* the child process is running (its pipes are open)
    readerState,    \* position of the reader task: running / desynced /
                    \* eof_spin / stopped
    unsolicited,    \* frames the child has written of its own accord
    stdinLock,      \* the task holding the Mutex of LspProcess.stdin
    wire,           \* the chunks written to the child's stdin, in order
    \* ---- orchestrator (container/mod.rs, container/orchestrator.rs) ----
    containers,     \* ContainerOrchestrator.containers: language -> record
    http_clients,   \* ContainerManager.http_clients: languages with a client
    docker,         \* the daemon's containers, by container id
    listeners,      \* host ports held by a live TcpListener (port_listener)
    stopTaken,      \* container ids stop_container has taken out of the map
    task,           \* each request task: operation, position and locals
    \* ---- managers (lsp/manager/manager.rs, lsp-wrapper/src/manager.rs) ----
    lsp_clients,    \* Manager.lsp_clients: the languages that have a client
    mgrCall         \* the manager call being served: arguments and result

sessionVars == <<sessionState, request_id, channels, pc, reqId, explicit,
                 mailbox, outcome, stdin, answered, stdout, childAlive,
                 readerState, unsolicited, stdinLock, wire>>

orchVars == <<containers, http_clients, docker, listeners, stopTaken, task>>

mgrVars == <<lsp_clients, mgrCall>>

\* what a session action leaves alone, what an orchestrator action does, and
\* what a manager action does
nonSessionVars == <<orchVars, mgrVars>>

nonOrchVars == <<sessionVars, mgrVars>>

nonMgrVars == <<sessionVars, orchVars>>

vars == <<sessionVars, orchVars, mgrVars>>

(***************************************************************************)
(* Helpers over the pending table and the channels.                        *)
(***************************************************************************)
\* HashMap::insert: a present key has its value replaced
MapInsert(m, k, v) == [x \in DOMAIN m \cup {k} |-> IF x = k THEN v ELSE m[x]]

\* HashMap::remove
MapRemove(m, k) == [x \in DOMAIN m \ {k} |-> m[x]]

\* the Sender of caller c's channel is still held by the pending table
HasSender(c) == \E i \in DOMAIN channels : channels[i] = c

\* the method a caller's request carries
MethodOf(c) == IF c = InitCaller THEN "initialize" ELSE "request"

\* send_request may be called by c: the initializer calls it inside new(),
\* users only hold an LspProcess after new() returned Ok
MayCall(c) ==
    IF c = InitCaller THEN sessionState = "initializing"
    ELSE sessionState = "ready"

(***************************************************************************)
(* Init: the state inside LspProcess::new after the child was spawned, the *)
(* reader task started and the struct built (lsp_process.rs:76-103).       *)
(***************************************************************************)
SessionInit ==
    /\ sessionState = "initializing"
    /\ request_id = 0
    /\ channels = << >>
    /\ pc = [c \in Callers |-> "idle"]
    /\ reqId = [c \in Callers |-> NoId]
    /\ explicit = [c \in Callers |-> NoId]
    /\ mailbox = [c \in Callers |-> NoMsg]
    /\ outcome = [c \in Callers |-> NoOutcome]
    /\ stdin = << >>
    /\ answered = {}
    /\ stdout = << >>
    /\ childAlive = TRUE
    /\ readerState = "running"
    /\ unsolicited = 0
    /\ stdinLock = Unlocked
    /\ wire = << >>

(***************************************************************************)
(* send_request, lines 198-204: take request.id, or the next counter value *)
(* under the request_id lock.  rid is the id of the caller's request:      *)
(* NoId for a direct call without id (initialize), ManagerRequestId for    *)
(* the wrapper Manager's find_definition / find_references /               *)
(* find_referenced_symbols.                                                *)
(***************************************************************************)
AssignId(c, rid) ==
    /\ MayCall(c)
    /\ pc[c] = "idle"
    /\ explicit' = [explicit EXCEPT ![c] = rid]
    /\ IF rid # NoId
       THEN /\ reqId' = [reqId EXCEPT ![c] = rid]
            /\ UNCHANGED request_id
       ELSE /\ request_id' = request_id + 1
            /\ reqId' = [reqId EXCEPT ![c] = request_id + 1]
    /\ pc' = [pc EXCEPT ![c] = "assigned"]
    /\ UNCHANGED <<sessionState, channels, mailbox, outcome, stdin, answered,
                   stdout, childAlive, readerState,
                   unsolicited, stdinLock, wire,
                   nonSessionVars>>

\* send_request, line 210 / add_request, lines 39-43: a new channel is made
\* and its Sender inserted under the id; a Sender already there is dropped
AddRequest(c) ==
    /\ pc[c] = "assigned"
    /\ channels' = MapInsert(channels, reqId[c], c)
    /\ pc' = [pc EXCEPT ![c] = "registered"]
    /\ UNCHANGED <<sessionState, request_id, reqId, explicit, mailbox, outcome,
                   stdin, answered, stdout, childAlive, readerState,
                   unsolicited, stdinLock, wire,
                   nonSessionVars>>

(***************************************************************************)
(* send_request, lines 213-223: the framed request is written under the    *)
(* stdin lock.  write_all hands the message to the pipe in as many writes  *)
(* as the pipe takes; the model has two, the first taken together with the *)
(* lock.  A write to the pipe of a dead child fails and `?` returns the    *)
(* error, dropping the guard.                                              *)
(***************************************************************************)
\* a faulty send_request that writes without taking the stdin lock
WriteHeader_NoLock(c) ==
    /\ pc[c] = "registered"
    /\ IF childAlive
       THEN /\ wire' = Append(wire, [of |-> c, part |-> "head"])
            /\ pc' = [pc EXCEPT ![c] = "writing"]
            /\ UNCHANGED outcome
       ELSE /\ pc' = [pc EXCEPT ![c] = "done"]
            /\ outcome' = [outcome EXCEPT
                             ![c] = [kind |-> "write_failed", of |-> EmptyParams]]
            /\ UNCHANGED wire
    /\ UNCHANGED <<sessionState, request_id, channels, reqId, explicit, mailbox,
                   stdin, answered, stdout, childAlive, readerState,
                   unsolicited, stdinLock, nonSessionVars>>

\* lines 220-221: the lock is free and taken; the first write of write_all
WriteHeader(c) ==
    /\ pc[c] = "registered"
    /\ stdinLock = Unlocked
    /\ IF childAlive
       THEN /\ wire' = Append(wire, [of |-> c, part |-> "head"])
            /\ stdinLock' = c
            /\ pc' = [pc EXCEPT ![c] = "writing"]
            /\ UNCHANGED outcome
       ELSE /\ pc' = [pc EXCEPT ![c] = "done"]
            /\ outcome' = [outcome EXCEPT
                             ![c] = [kind |-> "write_failed", of |-> EmptyParams]]
            /\ UNCHANGED <<wire, stdinLock>>
    /\ UNCHANGED <<sessionState, request_id, channels, reqId, explicit, mailbox,
                   stdin, answered, stdout, childAlive, readerState,
                   unsolicited, nonSessionVars>>

\* a faulty send_request that keeps the stdin guard while it waits for the
\* response
WriteRequest_KeepsLock(c) ==
    /\ pc[c] = "writing"
    /\ IF childAlive
       THEN /\ wire' = Append(wire, [of |-> c, part |-> "tail"])
            /\ stdin' = Append(stdin, [method |-> MethodOf(c),
                                       id |-> reqId[c], params |-> c])
            /\ pc' = [pc EXCEPT ![c] = "waiting"]
            /\ UNCHANGED <<outcome, stdinLock>>
       ELSE /\ pc' = [pc EXCEPT ![c] = "done"]
            /\ outcome' = [outcome EXCEPT
                             ![c] = [kind |-> "write_failed", of |-> EmptyParams]]
            /\ stdinLock' = IF stdinLock = c THEN Unlocked ELSE stdinLock
            /\ UNCHANGED <<stdin, wire>>
    /\ UNCHANGED <<sessionState, request_id, channels, reqId, explicit, mailbox,
                   answered, stdout, childAlive, readerState,
                   unsolicited, nonSessionVars>>

\* lines 221-223: the last write of write_all and the flush; the message is
\* whole on the child's stdin and the guard is dropped
WriteRequest(c) ==
    /\ pc[c] = "writing"
    /\ IF childAlive
       THEN /\ wire' = Append(wire, [of |-> c, part |-> "tail"])
            /\ stdin' = Append(stdin, [method |-> MethodOf(c),
                                       id |-> reqId[c], params |-> c])
            /\ pc' = [pc EXCEPT ![c] = "waiting"]
            /\ UNCHANGED outcome
       ELSE /\ pc' = [pc EXCEPT ![c] = "done"]
            /\ outcome' = [outcome EXCEPT
                             ![c] = [kind |-> "write_failed", of |-> EmptyParams]]
            /\ UNCHANGED <<stdin, wire>>
    /\ stdinLock' = IF stdinLock = c THEN Unlocked ELSE stdinLock
    /\ UNCHANGED <<sessionState, request_id, channels, reqId, explicit, mailbox,
                   answered, stdout, childAlive, readerState,
                   unsolicited, nonSessionVars>>

\* send_request, lines 226-240: recv() yields the buffered message, or None
\* once every Sender of the channel is gone; otherwise the caller stays blocked
RecvResponse(c) ==
    /\ pc[c] = "waiting"
    /\ \/ /\ mailbox[c] # NoMsg
          /\ outcome' = [outcome EXCEPT ![c] =
                IF mailbox[c].kind = "error"
                THEN [kind |-> "lsp_error", of |-> mailbox[c].of]
                ELSE [kind |-> "ok", of |-> mailbox[c].of]]
          /\ mailbox' = [mailbox EXCEPT ![c] = NoMsg]
       \/ /\ mailbox[c] = NoMsg
          /\ ~HasSender(c)
          /\ outcome' = [outcome EXCEPT
                           ![c] = [kind |-> "recv_failed", of |-> EmptyParams]]
          /\ UNCHANGED mailbox
    /\ pc' = [pc EXCEPT ![c] = "done"]
    /\ UNCHANGED <<sessionState, request_id, channels, reqId, explicit, stdin,
                   answered, stdout, childAlive, readerState,
                   unsolicited, stdinLock, wire,
                   nonSessionVars>>

\* the caller's future is dropped at an await of send_request (the wrapper's
\* HTTP handler is cancelled when its connection closes): the Receiver is
\* dropped with it, nothing removes the entry of the pending table; a stdin
\* guard the future holds is dropped too, with the message written in part
Abandon(c) ==
    /\ c \in Users
    /\ pc[c] \in {"assigned"} \cup InFlight
    /\ pc' = [pc EXCEPT ![c] = "done"]
    /\ mailbox' = [mailbox EXCEPT ![c] = NoMsg]
    /\ outcome' = [outcome EXCEPT
                     ![c] = [kind |-> "abandoned", of |-> EmptyParams]]
    /\ stdinLock' = IF stdinLock = c THEN Unlocked ELSE stdinLock
    /\ UNCHANGED <<sessionState, request_id, channels, reqId, explicit, stdin,
                   answered, stdout, childAlive, readerState,
                   unsolicited, wire,
                   nonSessionVars>>

\* a faulty initialize that sends the initialized notification and returns
\* the process whatever the initialize request returned
InitializeFinish_IgnoresError ==
    /\ sessionState = "initializing"
    /\ pc[InitCaller] = "done"
    /\ stdinLock = Unlocked
    /\ stdin' = Append(stdin, [method |-> "initialized",
                               id |-> NoId, params |-> EmptyParams])
    /\ wire' = wire \o <<[of |-> InitializedNote, part |-> "head"],
                         [of |-> InitializedNote, part |-> "tail"]>>
    /\ sessionState' = "ready"
    /\ UNCHANGED <<request_id, channels, pc, reqId, explicit, mailbox, outcome,
                   answered, stdout, childAlive, readerState,
                   unsolicited, stdinLock,
                   nonSessionVars>>

(***************************************************************************)
(* LspProcess::initialize, lines 153-164, with send_initialized, lines     *)
(* 168-189, and the end of LspProcess::new, lines 106-108: once the        *)
(* initialize request has returned, Ok sends the initialized notification  *)
(* (no id, empty params) and new() returns the process; an Err, or a       *)
(* failed write of the notification, makes new() fail: the process is      *)
(* dropped, which kills the child (kill_on_drop, Drop at 342-347).         *)
(***************************************************************************)
InitializeFinish ==
    /\ sessionState = "initializing"
    /\ pc[InitCaller] = "done"
    /\ stdinLock = Unlocked
    /\ IF outcome[InitCaller].kind = "ok" /\ childAlive
       THEN /\ stdin' = Append(stdin, [method |-> "initialized",
                                       id |-> NoId, params |-> EmptyParams])
            /\ wire' = wire \o <<[of |-> InitializedNote, part |-> "head"],
                                 [of |-> InitializedNote, part |-> "tail"]>>
            /\ sessionState' = "ready"
            /\ UNCHANGED childAlive
       ELSE /\ sessionState' = "failed"
            /\ childAlive' = FALSE
            /\ UNCHANGED <<stdin, wire>>
    /\ UNCHANGED <<request_id, channels, pc, reqId, explicit, mailbox, outcome,
                   answered, stdout, readerState,
                   unsolicited, stdinLock,
                   nonSessionVars>>

(***************************************************************************)
(* The analyzer (the child process).  It answers a request it has read     *)
(* from stdin with a frame carrying the request's id and either a result   *)
(* computed from the request's params or an error; it answers in any       *)
(* order, and it does not answer notifications.                            *)
(***************************************************************************)
ChildRespond(i, kind) ==
    /\ childAlive
    /\ i \in DOMAIN stdin
    /\ i \notin answered
    /\ stdin[i].id # NoId
    /\ answered' = answered \cup {i}
    /\ stdout' = Append(stdout, [id |-> stdin[i].id, kind |-> kind,
                                 of |-> stdin[i].params])
    /\ UNCHANGED <<sessionState, request_id, channels, pc, reqId, explicit,
                   mailbox, outcome, stdin, childAlive, readerState,
                   unsolicited, stdinLock, wire,
                   nonSessionVars>>

\* frames the analyzer writes that answer no request
MaxUnsolicited == 1

\* ids the analyzer gives the requests it sends itself: it numbers them from
\* its own counter, so an id may equal one a caller is registered under
\* (ManagerRequestId) or be one no caller ever has
ServerRequestIds == {ManagerRequestId, MaxUsers + 2}

Unsolicited == {"notification", "request", "bad_length"}

\* the analyzer writes a frame of its own accord: a notification (no id), a
\* request of its own (an id from its own counter), or a frame whose header
\* block has no usable Content-Length
ChildSend(id, kind) ==
    /\ childAlive
    /\ kind \in Unsolicited
    /\ id \in (IF kind = "request" THEN ServerRequestIds ELSE {NoId})
    /\ unsolicited < MaxUnsolicited
    /\ unsolicited' = unsolicited + 1
    /\ stdout' = Append(stdout, [id |-> id, kind |-> kind, of |-> EmptyParams])
    /\ UNCHANGED <<sessionState, request_id, channels, pc, reqId, explicit,
                   mailbox, outcome, stdin, answered, childAlive, readerState,
                   stdinLock, wire, nonSessionVars>>

\* the child exits (crash, or killed): its pipes close
ChildExit ==
    /\ childAlive
    /\ childAlive' = FALSE
    /\ UNCHANGED <<sessionState, request_id, channels, pc, reqId, explicit,
                   mailbox, outcome, stdin, answered, stdout, readerState,
                   unsolicited, stdinLock, wire,
                   nonSessionVars>>

(***************************************************************************)
(* The reader task, start_response_listener, lines 245-339.                *)
(***************************************************************************)
\* a faulty reader that ends its task on a frame it cannot route
ReaderRoute_StopsOnUnrouted ==
    /\ readerState = "running"
    /\ stdout # << >>
    /\ Head(stdout).kind # "bad_length"
    /\ LET msg == Head(stdout) IN
         /\ stdout' = Tail(stdout)
         /\ IF msg.id # NoId /\ msg.id \in DOMAIN channels
            THEN /\ channels' = MapRemove(channels, msg.id)
                 /\ IF pc[channels[msg.id]] \in InFlight
                    THEN mailbox' = [mailbox EXCEPT ![channels[msg.id]] = msg]
                    ELSE UNCHANGED mailbox
                 /\ UNCHANGED readerState
            ELSE /\ readerState' = "stopped"
                 /\ UNCHANGED <<channels, mailbox>>
    /\ UNCHANGED <<sessionState, request_id, pc, reqId, explicit, outcome,
                   stdin, answered, childAlive,
                   unsolicited, stdinLock, wire,
                   nonSessionVars>>

\* lines 250-334, one round of the loop on a well-formed frame: the frame is
\* read and parsed; with an id, the Sender is taken out of the table and the
\* message sent on it (321-327), which fails when the caller has returned and
\* dropped the Receiver; with no entry the message is dropped (329)
ReaderRoute ==
    /\ readerState = "running"
    /\ stdout # << >>
    /\ Head(stdout).kind # "bad_length"
    /\ LET msg == Head(stdout) IN
         /\ stdout' = Tail(stdout)
         /\ IF msg.id # NoId /\ msg.id \in DOMAIN channels
            THEN /\ channels' = MapRemove(channels, msg.id)
                 /\ IF pc[channels[msg.id]] \in InFlight
                    THEN mailbox' = [mailbox EXCEPT ![channels[msg.id]] = msg]
                    ELSE UNCHANGED mailbox   \* send fails: Receiver dropped
            ELSE UNCHANGED <<channels, mailbox>>
    /\ UNCHANGED <<sessionState, request_id, pc, reqId, explicit, outcome,
                   stdin, answered, childAlive, readerState,
                   unsolicited, stdinLock, wire,
                   nonSessionVars>>

(***************************************************************************)
(* lines 271-284 on a header block without a usable Content-Length: a      *)
(* value that does not parse as usize (non-numeric, negative) is logged    *)
(* and the line dropped (276-280); a blank line met while content_length   *)
(* is None is dropped like any other header line (283).  The header loop   *)
(* goes on reading lines, so the body of the frame is read as a line: when *)
(* the body ends with a newline the next frame starts at a line start and  *)
(* is read as a frame, otherwise the body runs into the next frame's       *)
(* Content-Length line and the reader has lost the frame boundary.         *)
(***************************************************************************)
ReaderBadHeader ==
    /\ readerState = "running"
    /\ stdout # << >>
    /\ Head(stdout).kind = "bad_length"
    /\ stdout' = Tail(stdout)
    /\ readerState' \in {"running", "desynced"}
    /\ UNCHANGED <<sessionState, request_id, channels, pc, reqId, explicit,
                   mailbox, outcome, stdin, answered, childAlive,
                   unsolicited, stdinLock, wire,
                   nonSessionVars>>

\* lines 254-284 after the frame boundary was lost: the Content-Length line
\* of the next frame does not start a line, so it is dropped, its blank line
\* is dropped, and its body is read as a line again; the reader is back at a
\* frame boundary once such a body ends with a newline
ReaderSwallow ==
    /\ readerState = "desynced"
    /\ stdout # << >>
    /\ stdout' = Tail(stdout)
    /\ readerState' \in {"running", "desynced"}
    /\ UNCHANGED <<sessionState, request_id, channels, pc, reqId, explicit,
                   mailbox, outcome, stdin, answered, childAlive,
                   unsolicited, stdinLock, wire,
                   nonSessionVars>>

\* lines 255-261 (read_until fails: return) and 297-300 (read_exact fails:
\* break): a fatal read error ends the task; nothing else is touched
ReaderReadError ==
    /\ readerState \in {"running", "desynced"}
    /\ readerState' = "stopped"
    /\ UNCHANGED <<sessionState, request_id, channels, pc, reqId, explicit,
                   mailbox, outcome, stdin, answered, stdout, childAlive,
                   unsolicited, stdinLock, wire,
                   nonSessionVars>>

\* lines 263-266: at end-of-file read_until returns 0 bytes; the buffer is
\* cleared and the header loop continues, reading 0 bytes again
ReaderEof ==
    /\ readerState \in {"running", "desynced"}
    /\ ~childAlive
    /\ stdout = << >>
    /\ readerState' = "eof_spin"
    /\ UNCHANGED <<sessionState, request_id, channels, pc, reqId, explicit,
                   mailbox, outcome, stdin, answered, stdout, childAlive,
                   unsolicited, stdinLock, wire,
                   nonSessionVars>>

(***************************************************************************)
(* The container orchestrator.                                             *)
(***************************************************************************)
\* number of request tasks of the gateway; each serves one request
MaxTasks == 3

\* host ports the operating system can hand out
MaxPorts == 2

Tasks == 1..MaxTasks

Ports == 1..MaxPorts

\* SupportedLanguages (two of the ten tags)
Langs == {"python", "golang"}

\* no port reserved / no container id yet
NoPort == 0

NoCid == 0

\* HashMap::get returned None
NoRecord == [cid |-> NoCid, port |-> NoPort]

IdleTask == [op |-> "none", pc |-> "idle", lang |-> "none", port |-> NoPort,
             cid |-> NoCid, ret |-> "none", retCid |-> NoCid]

\* ports some socket of the host is bound to: the gateway's listeners and
\* the published ports of running containers
PortsInUse ==
    listeners \cup {docker[c].port : c \in {x \in DOMAIN docker :
                                            docker[x].status = "running"}}

\* the task returns from its operation with result r (and record id rc);
\* its locals go out of scope
Finish(t, r, rc) ==
    [task EXCEPT ![t].pc = "done", ![t].ret = r, ![t].retCid = rc,
                 ![t].port = NoPort, ![t].cid = NoCid]

\* spawn_container returns r to its caller: get_container_client
\* (container_proxy.rs:28-37) and a direct caller pass the result on;
\* get_client (container_manager.rs:110-118) passes an error on and, with a
\* record, goes on to store a client
SpawnResult(t, r, rc) ==
    IF task[t].op = "get_client" /\ r = "ok"
    THEN [task EXCEPT ![t].pc = "insert_client", ![t].ret = r, ![t].retCid = rc,
                      ![t].port = NoPort, ![t].cid = NoCid]
    ELSE Finish(t, r, rc)

\* request tasks are interchangeable: they are taken in the order of their
\* numbers, so that one run stands for all its renamings
NextToStart(t) ==
    /\ task[t].pc = "idle"
    /\ \A u \in Tasks : u < t => task[u].pc # "idle"

\* ContainerOrchestrator::new, mod.rs:46-57: an empty map
OrchInit ==
    /\ containers = [l \in Langs |-> NoRecord]
    /\ http_clients = {}
    /\ docker = << >>
    /\ listeners = {}
    /\ stopTaken = {}
    /\ task = [t \in Tasks |-> IdleTask]

\* container_proxy::get_container_client, lines 21-28: an existing record is
\* returned, otherwise spawn_container is called (initialize_workspace,
\* mod.rs:97-103, and start_containers, container_manager.rs:66-74, call
\* spawn_container the same way)
GetContainerClient(t, l) ==
    /\ NextToStart(t)
    /\ LET call == [IdleTask EXCEPT !.op = "get_container_client", !.lang = l] IN
         IF containers[l] # NoRecord
         THEN task' = [task EXCEPT ![t] = [call EXCEPT !.pc = "done",
                           !.ret = "ok", !.retCid = containers[l].cid]]
         ELSE task' = [task EXCEPT ![t] = [call EXCEPT !.pc = "spawn_check"]]
    /\ UNCHANGED <<containers, http_clients, docker, listeners, stopTaken,
                   nonOrchVars>>

\* ContainerManager::get_client, lines 94-111: with a client in http_clients
\* the endpoint of the container's record is used, and a missing record is
\* NoLspClientAvailable; without one spawn_container is called (the
\* http_clients lock is released before)
GetClient(t, l) ==
    /\ NextToStart(t)
    /\ LET call == [IdleTask EXCEPT !.op = "get_client", !.lang = l] IN
         IF l \in http_clients
         THEN IF containers[l] # NoRecord
              THEN task' = [task EXCEPT ![t] = [call EXCEPT !.pc = "done",
                                !.ret = "ok", !.retCid = containers[l].cid]]
              ELSE task' = [task EXCEPT ![t] = [call EXCEPT !.pc = "done",
                                !.ret = "err_no_client"]]
         ELSE task' = [task EXCEPT ![t] = [call EXCEPT !.pc = "spawn_check"]]
    /\ UNCHANGED <<containers, http_clients, docker, listeners, stopTaken,
                   nonOrchVars>>

\* spawn_container, orchestrator.rs:24-32: return the existing record
SpawnCheck(t) ==
    /\ task[t].pc = "spawn_check"
    /\ IF containers[task[t].lang] # NoRecord
       THEN task' = SpawnResult(t, "ok", containers[task[t].lang].cid)
       ELSE task' = [task EXCEPT ![t].pc = "reserve"]
    /\ UNCHANGED <<containers, http_clients, docker, listeners, stopTaken,
                   nonOrchVars>>

\* a faulty reservation that reads the port and drops the listener at once
ReservePort_ListenerDropped(t) ==
    /\ task[t].pc = "reserve"
    /\ IF Ports \ PortsInUse = {}
       THEN task' = SpawnResult(t, "err_io", NoCid)
       ELSE \E p \in Ports \ PortsInUse :
              task' = [task EXCEPT ![t].pc = "create", ![t].port = p]
    /\ UNCHANGED <<containers, http_clients, docker, listeners, stopTaken,
                   nonOrchVars>>

\* spawn_container, orchestrator.rs:49-52: bind port 0 and read the port the
\* system chose, one no socket is bound to; the listener stays alive.  With
\* no port left the bind fails (OrchestratorError::Io)
ReservePort(t) ==
    /\ task[t].pc = "reserve"
    /\ IF Ports \ PortsInUse = {}
       THEN /\ task' = SpawnResult(t, "err_io", NoCid)
            /\ UNCHANGED listeners
       ELSE \E p \in Ports \ PortsInUse :
              /\ listeners' = listeners \cup {p}
              /\ task' = [task EXCEPT ![t].pc = "create", ![t].port = p]
    /\ UNCHANGED <<containers, http_clients, docker, stopTaken, nonOrchVars>>

\* spawn_container, orchestrator.rs:97-100: the daemon creates the container
\* and returns its id, or fails; `?` returns the error and drops the
\* listener
CreateContainer(t) ==
    /\ task[t].pc = "create"
    /\ \/ /\ docker' = Append(docker, [lang |-> task[t].lang,
                                       port |-> task[t].port,
                                       status |-> "created"])
          /\ task' = [task EXCEPT ![t].pc = "start", ![t].cid = Len(docker) + 1]
          /\ UNCHANGED listeners
       \/ /\ listeners' = listeners \ {task[t].port}
          /\ task' = SpawnResult(t, "err_docker", NoCid)
          /\ UNCHANGED docker
    /\ UNCHANGED <<containers, http_clients, stopTaken, nonOrchVars>>

\* spawn_container, orchestrator.rs:102-109: the daemon starts the container,
\* which publishes the host port, and the listener is dropped; or the start
\* fails and `?` returns.  The daemon refuses a port that a running
\* container has published
StartContainer(t) ==
    /\ task[t].pc = "start"
    /\ \/ /\ \A c \in DOMAIN docker :
                docker[c].status = "running" => docker[c].port # task[t].port
          /\ docker' = [docker EXCEPT ![task[t].cid].status = "running"]
          /\ task' = [task EXCEPT ![t].pc = "store"]
       \/ /\ task' = SpawnResult(t, "err_docker", NoCid)
          /\ UNCHANGED docker
    /\ listeners' = listeners \ {task[t].port}
    /\ UNCHANGED <<containers, http_clients, stopTaken, nonOrchVars>>

\* spawn_container, orchestrator.rs:111-121, store_container, mod.rs:167-169
StoreContainer(t) ==
    /\ task[t].pc = "store"
    /\ containers' = [containers EXCEPT ![task[t].lang] =
                        [cid |-> task[t].cid, port |-> task[t].port]]
    /\ task' = [task EXCEPT ![t].pc = "health"]
    /\ UNCHANGED <<http_clients, docker, listeners, stopTaken, nonOrchVars>>

\* spawn_container, orchestrator.rs:123-140, check_container_health, 154-193:
\* enabled says whether LSPROXY_ENABLE_HEALTH_CHECK is set when the task
\* reads it and healthy whether a poll of /health succeeds within the
\* timeout; the error of an enabled check is returned by `?`, without the
\* check the task sleeps and returns the record
HealthCheck(t, enabled, healthy) ==
    /\ task[t].pc = "health"
    /\ IF enabled /\ ~healthy
       THEN task' = SpawnResult(t, "err_health", NoCid)
       ELSE task' = SpawnResult(t, "ok", task[t].cid)
    /\ UNCHANGED <<containers, http_clients, docker, listeners, stopTaken,
                   nonOrchVars>>

\* get_client, container_manager.rs:115-118: the client of the spawned
\* container is stored in http_clients
InsertHttpClient(t) ==
    /\ task[t].pc = "insert_client"
    /\ http_clients' = http_clients \cup {task[t].lang}
    /\ task' = [task EXCEPT ![t].pc = "done"]
    /\ UNCHANGED <<containers, docker, listeners, stopTaken, nonOrchVars>>

\* a faulty stop_container that reads the record and leaves it in the map
StopContainer_KeepsRecord(t, l) ==
    /\ NextToStart(t)
    /\ LET call == [IdleTask EXCEPT !.op = "stop_container", !.lang = l] IN
         IF containers[l] = NoRecord
         THEN /\ task' = [task EXCEPT ![t] = [call EXCEPT !.pc = "done",
                                                !.ret = "ok"]]
              /\ UNCHANGED stopTaken
         ELSE /\ task' = [task EXCEPT ![t] = [call EXCEPT !.pc = "docker_stop",
                                !.cid = containers[l].cid,
                                !.port = containers[l].port]]
              /\ stopTaken' = stopTaken \cup {containers[l].cid}
    /\ UNCHANGED <<containers, http_clients, docker, listeners, nonOrchVars>>

\* stop_container, mod.rs:134-137, remove_container, mod.rs:172-174: the
\* record is taken out of the map; without a record the call returns Ok
StopContainer(t, l) ==
    /\ NextToStart(t)
    /\ LET call == [IdleTask EXCEPT !.op = "stop_container", !.lang = l] IN
         IF containers[l] = NoRecord
         THEN /\ task' = [task EXCEPT ![t] = [call EXCEPT !.pc = "done",
                                                !.ret = "ok"]]
              /\ UNCHANGED <<containers, stopTaken>>
         ELSE /\ task' = [task EXCEPT ![t] = [call EXCEPT !.pc = "docker_stop",
                                !.cid = containers[l].cid,
                                !.port = containers[l].port]]
              /\ containers' = [containers EXCEPT ![l] = NoRecord]
              /\ stopTaken' = stopTaken \cup {containers[l].cid}
    /\ UNCHANGED <<http_clients, docker, listeners, nonOrchVars>>

\* stop_container, mod.rs:138-146: the graceful stop; a failure is logged
DockerStop(t) ==
    /\ task[t].pc = "docker_stop"
    /\ \/ /\ docker[task[t].cid].status = "running"
          /\ docker' = [docker EXCEPT ![task[t].cid].status = "exited"]
       \/ UNCHANGED docker
    /\ task' = [task EXCEPT ![t].pc = "docker_remove"]
    /\ UNCHANGED <<containers, http_clients, listeners, stopTaken,
                   nonOrchVars>>

\* stop_container, mod.rs:148-158: the forced removal; `?` returns its error
DockerRemove(t) ==
    /\ task[t].pc = "docker_remove"
    /\ \/ /\ docker[task[t].cid].status # "removed"
          /\ docker' = [docker EXCEPT ![task[t].cid].status = "removed"]
          /\ task' = Finish(t, "ok", NoCid)
       \/ /\ task' = Finish(t, "err_docker", NoCid)
          /\ UNCHANGED docker
    /\ UNCHANGED <<containers, http_clients, listeners, stopTaken,
                   nonOrchVars>>

OrchNext ==
    \/ \E t \in Tasks, l \in Langs : GetContainerClient(t, l)
    \/ \E t \in Tasks, l \in Langs : GetClient(t, l)
    \/ \E t \in Tasks : SpawnCheck(t)
    \/ \E t \in Tasks : ReservePort(t)
    \/ \E t \in Tasks : CreateContainer(t)
    \/ \E t \in Tasks : StartContainer(t)
    \/ \E t \in Tasks : StoreContainer(t)
    \/ \E t \in Tasks, enabled \in BOOLEAN, healthy \in BOOLEAN :
         HealthCheck(t, enabled, healthy)
    \/ \E t \in Tasks : InsertHttpClient(t)
    \/ \E t \in Tasks, l \in Langs : StopContainer(t, l)
    \/ \E t \in Tasks : DockerStop(t)
    \/ \E t \in Tasks : DockerRemove(t)

(***************************************************************************)
(* The managers: the in-process Manager (lsp/manager/manager.rs), the      *)
(* wrapper Manager (lsp-wrapper/src/manager.rs) and the gateway handlers.  *)
(* A call is served as a whole; its path, what the scanner, the analyzer   *)
(* or the file system answered when asked, and its result are kept in      *)
(* mgrCall until the result has been handed to the caller.                 *)
(***************************************************************************)
\* files of the workspace; a file's number is the rank of its relative path
\* in the order of strings
MaxFiles == 3

\* URIs an analyzer may name in a response
MaxUris == 2

\* largest line and largest character of a position
MaxPos == 1

\* longest analyzer response, scanner result and file, in entries
MaxLen == 2

Files == 1..MaxFiles

\* a path that names no file of the workspace
MissingPath == MaxFiles + 1

Paths == Files \cup {MissingPath}

\* the languages of the in-process clients that the model runs
MgrLangs == {"python", "ruby", "ruby_sorbet"}

\* a path whose extension no language has ("notes.txt")
UnsupportedPath == MaxFiles + 3

\* the extension of a path: odd paths are Python files, even ones Ruby files
Extension(p) ==
    IF p = UnsupportedPath THEN "txt" ELSE IF p % 2 = 1 THEN "py" ELSE "rb"

\* has_sorbet_type_annotation, file_utils.rs:198-216: the file starts with
\* a `# typed: true|strict|strong` comment
has_sorbet_type_annotation(p) == p \in Files /\ p % 4 = 0

\* detect_language, file_utils.rs:218-246
detect_language(p) ==
    IF Extension(p) = "py" THEN "python"
    ELSE IF Extension(p) = "rb"
    THEN (IF has_sorbet_type_annotation(p) THEN "ruby_sorbet" ELSE "ruby")
    ELSE "unsupported"

\* the files a client's WorkspaceDocumentsHandler lists: those matching the
\* patterns it was built with; RubyClient and RubySorbetClient are both
\* built with RUBY_FILE_PATTERNS (ruby_lsp.rs:162-165, ruby_sorbet.rs:158-161)
WorkspaceDocuments(l) ==
    {f \in Files : Extension(f) = (IF l = "python" THEN "py" ELSE "rb")}

\* the entries of a sequence
Range(s) == {s[i] : i \in DOMAIN s}

\* sequences over S of length at most n
SeqsUpTo(S, n) == UNION {[1..k -> S] : k \in 0..n}

\* one step of the stable sort: x goes behind the entries whose key is not
\* larger than its own (t is sorted by key)
InsertByKey(t, x, key) ==
    LET n == Cardinality({i \in DOMAIN t : key[t[i]] <= key[x]}) IN
      SubSeq(t, 1, n) \o <<x>> \o SubSeq(t, n + 1, Len(t))

\* slice::sort / slice::sort_by: a stable sort by key; nothing is removed
RECURSIVE SortByKey(_, _)
SortByKey(s, key) ==
    IF s = << >> THEN << >>
    ELSE InsertByKey(SortByKey(SubSeq(s, 1, Len(s) - 1), key), s[Len(s)], key)

\* the entries of the set S as a sequence in ascending order
RECURSIVE SetToSortedSeq(_)
SetToSortedSeq(S) ==
    IF S = {} THEN << >>
    ELSE LET m == CHOOSE x \in S : \A y \in S : x <= y IN
           <<m>> \o SetToSortedSeq(S \ {m})

\* the concatenation of the sequences of a sequence
RECURSIVE Flatten(_)
Flatten(ss) == IF ss = << >> THEN << >> ELSE Head(ss) \o Flatten(Tail(ss))

\* no call is being served
NoCall == [op |-> "none", mgr |-> "none", path |-> 0, ret |-> "none",
           input |-> << >>, output |-> << >>]

\* Manager::new, manager.rs:39-67: no client yet
MgrInit ==
    /\ lsp_clients = {}
    /\ mgrCall = NoCall

\* the result of the call has been handed to its caller
ManagerReturn ==
    /\ mgrCall # NoCall
    /\ mgrCall' = NoCall
    /\ UNCHANGED <<lsp_clients, nonMgrVars>>

\* the order in which start_langservers goes through the languages
\* (detect_languages_in_workspace, manager.rs:102-113)
LangOrder == <<"python", "ruby", "ruby_sorbet">>

\* start_langservers, manager.rs:184-254, from the i-th language on:
\* a language that has a client is skipped; a client whose construction,
\* initialize or setup_workspace fails ends the call with the error; any
\* other one is inserted
RECURSIVE StartFrom(_, _, _, _)
StartFrom(i, clients, detected, failing) ==
    IF i > Len(LangOrder) THEN [clients |-> clients, ret |-> "ok"]
    ELSE IF LangOrder[i] \notin detected \/ LangOrder[i] \in clients
         THEN StartFrom(i + 1, clients, detected, failing)
    ELSE IF LangOrder[i] \in failing
         THEN [clients |-> clients, ret |-> "err"]
    ELSE StartFrom(i + 1, clients \cup {LangOrder[i]}, detected, failing)

\* the entries of ENABLED_LANGUAGES that the model tries
MaxEntries == 2

\* the words an entry may be, in lower case: names and aliases of the
\* languages, a word that names none, and the empty word
Words == {"python", "ruby", "ruby_sorbet", "sorbet", "perl", ""}

\* an entry between two commas: a word, written in lower or upper case,
\* with or without white space around it
Entries == [word : Words, upper : BOOLEAN, padded : BOOLEAN]

\* ENABLED_LANGUAGES is not set
Unset == << >>

\* the values of ENABLED_LANGUAGES as langs.split(',') yields them: one
\* entry or more (the empty string is one empty entry)
EnvValues == {Unset} \cup UNION {[1..n -> Entries] : n \in 1..MaxEntries}

\* the values written plainly: lower case, no white space
PlainEnvValues ==
    {e \in EnvValues : \A i \in DOMAIN e : ~e[i].upper /\ ~e[i].padded}

\* str::trim and str::to_lowercase
trim(e) == [e EXCEPT !.padded = FALSE]

to_lowercase(e) == [e EXCEPT !.upper = FALSE]

\* an entry that is exactly the word w
Literal(w) == [word |-> w, upper |-> FALSE, padded |-> FALSE]

\* no language: Option::None of parse_language
NoLanguage == "none"

\* a faulty parse_language that does not trim the entry
parse_language_Untrimmed(e) ==
    LET w == to_lowercase(e) IN
      IF w = Literal("python") THEN "python"
      ELSE IF w = Literal("ruby") THEN "ruby"
      ELSE IF w \in {Literal("ruby_sorbet"), Literal("sorbet")} THEN "ruby_sorbet"
      ELSE NoLanguage

\* Manager::parse_language, manager.rs:70-86, for the languages of the model
parse_language(e) ==
    LET w == to_lowercase(trim(e)) IN
      IF w = Literal("python") THEN "python"
      ELSE IF w = Literal("ruby") THEN "ruby"
      ELSE IF w \in {Literal("ruby_sorbet"), Literal("sorbet")} THEN "ruby_sorbet"
      ELSE NoLanguage

\* Manager::get_enabled_languages, manager.rs:90-94: None when the
\* variable is not set, else the set of the entries that parse
get_enabled_languages(env) ==
    IF env = Unset THEN [some |-> FALSE, langs |-> {}]
    ELSE [some |-> TRUE,
          langs |-> {parse_language(env[i]) : i \in DOMAIN env} \ {NoLanguage}]

\* a call of get_enabled_languages with a value of the variable
GetEnabledLanguages ==
    /\ mgrCall = NoCall
    /\ \E env \in EnvValues :
         /\ mgrCall' = [NoCall EXCEPT !.op = "get_enabled_languages",
                                      !.mgr = "inproc", !.input = env, !.ret = "ok",
                                      !.output = get_enabled_languages(env)]
         /\ UNCHANGED <<lsp_clients, nonMgrVars>>

\* Manager::detect_languages_in_workspace, manager.rs:98-177: a language is
\* skipped when ENABLED_LANGUAGES is set and does not name it; it is
\* detected when files of the workspace match its patterns (present)
detect_languages_in_workspace(env, present) ==
    LET enabled == get_enabled_languages(env) IN
      {l \in present : enabled.some => l \in enabled.langs}

\* ContainerManager::detect_languages_in_workspace,
\* container_manager.rs:36-60, and the detection loop of
\* ContainerOrchestrator::initialize_workspace, container/mod.rs:66-92:
\* every language with matching files is detected
ContainerDetectLanguages(env, present) == present

\* what a start-up call took in and did: the value of ENABLED_LANGUAGES,
\* the languages with files, and the languages it started
Startup(env, present, before, after) ==
    [env |-> env, present |-> present, started |-> after \ before]

\* Manager::start_langservers, manager.rs:179-256: the languages
\* detect_languages_in_workspace finds are started; failing are those
\* whose client cannot be started
StartLangservers ==
    /\ mgrCall = NoCall
    /\ \E env \in PlainEnvValues, present \in SUBSET MgrLangs,
          failing \in SUBSET MgrLangs :
         /\ LET r == StartFrom(1, lsp_clients,
                               detect_languages_in_workspace(env, present), failing) IN
              /\ lsp_clients' = r.clients
              /\ mgrCall' = [NoCall EXCEPT
                               !.op = "start_langservers", !.mgr = "inproc",
                               !.ret = r.ret,
                               !.input = Startup(env, present, lsp_clients, r.clients)]
         /\ UNCHANGED nonMgrVars

\* ContainerOrchestrator::initialize_workspace, container/mod.rs:61-115
\* (m = "orchestrator"), and ContainerManager::start_containers,
\* container_manager.rs:63-90 (m = "container"): a container is spawned for
\* every detected language that has none (existing are those that have
\* one); the first spawn that fails ends the call
StartContainers ==
    /\ mgrCall = NoCall
    /\ \E m \in {"orchestrator", "container"}, env \in PlainEnvValues,
          present \in SUBSET MgrLangs, existing \in SUBSET MgrLangs,
          failing \in SUBSET MgrLangs :
         /\ LET r == StartFrom(1, existing,
                               ContainerDetectLanguages(env, present), failing) IN
              mgrCall' = [NoCall EXCEPT
                            !.op = "start_containers", !.mgr = m, !.ret = r.ret,
                            !.input = Startup(env, present, existing, r.clients)]
         /\ UNCHANGED <<lsp_clients, nonMgrVars>>

\* the orders in which a HashMap may iterate over the clients
ClientOrders == {o \in [1..Cardinality(lsp_clients) -> lsp_clients] :
                   Range(o) = lsp_clients}

\* sort key of a relative path of the workspace: its rank among strings
FileKey == [f \in Paths |-> f]

\* Manager::list_files, manager.rs:471-487: the documents of every client,
\* in the map's iteration order, then files.sort()
list_files(order) ==
    SortByKey(Flatten([i \in DOMAIN order |->
                         SetToSortedSeq(WorkspaceDocuments(order[i]))]),
              FileKey)

\* wrapper Manager::list_files, lsp-wrapper/src/manager.rs:54-80: the files
\* the walk over the workspace yields, in the walk's order
WrapperListFiles == Files

Uris == 1..MaxUris

\* a Location (or the target of a LocationLink): URI and start position
Locations == [uri : Uris, line : 0..MaxPos, character : 0..MaxPos]

\* uri_to_relative_path_string, file_utils.rs:179-196: the mount directory
\* is stripped from a path under it (odd URIs) and any other path is kept
\* whole.  The value is the rank of the resulting string: a kept path
\* starts with "/" and sorts before every stripped one
uri_to_relative_path_string(u) == IF u % 2 = 1 THEN MaxUris + u ELSE u

\* the comparator of find_definition and find_references: relative path,
\* then start line, then start character
LocKey ==
    [x \in Locations |->
       (uri_to_relative_path_string(x.uri) * (MaxPos + 1) + x.line)
         * (MaxPos + 1) + x.character]

\* what the analyzer answers to textDocument/definition: an error, or a
\* GotoDefinitionResponse (Scalar, Array or Link)
DefinitionResponses ==
    {[kind |-> "error", locs |-> << >>]}
      \cup {[kind |-> "scalar", locs |-> <<x>>] : x \in Locations}
      \cup {[kind |-> k, locs |-> s] :
               k \in {"array", "link"}, s \in SeqsUpTo(Locations, MaxLen)}

\* manager.rs:320-348 and lsp-wrapper/src/manager.rs:193-221: Array and
\* Link are sorted with sort_by, a Scalar is left as it is
SortDefinition(resp) ==
    IF resp.kind \in {"array", "link"} THEN SortByKey(resp.locs, LocKey)
    ELSE resp.locs

\* Manager::find_definition, manager.rs:292-350
FindDefinition ==
    /\ mgrCall = NoCall
    /\ \E p \in Paths, order \in ClientOrders :
         LET call == [NoCall EXCEPT !.op = "find_definition", !.mgr = "inproc",
                                   !.path = p] IN
           /\ IF p \notin Range(list_files(order))
              THEN mgrCall' = [call EXCEPT !.ret = "file_not_found"]
              ELSE IF detect_language(p) \notin lsp_clients
              THEN mgrCall' = [call EXCEPT !.ret = "client_not_found"]
              ELSE \E resp \in DefinitionResponses :
                     mgrCall' =
                       IF resp.kind = "error"
                       THEN [call EXCEPT !.input = resp, !.ret = "internal_error"]
                       ELSE [call EXCEPT !.input = resp, !.ret = "ok",
                                         !.output = SortDefinition(resp)]
           /\ UNCHANGED <<lsp_clients, nonMgrVars>>

\* wrapper Manager::find_definition, lsp-wrapper/src/manager.rs:149-224
WrapperFindDefinition ==
    /\ mgrCall = NoCall
    /\ \E p \in Paths :
         LET call == [NoCall EXCEPT !.op = "find_definition", !.mgr = "wrapper",
                                   !.path = p] IN
           /\ IF p \notin WrapperListFiles
              THEN mgrCall' = [call EXCEPT !.ret = "file_not_found"]
              ELSE \E resp \in DefinitionResponses :
                     mgrCall' =
                       IF resp.kind = "error"
                       THEN [call EXCEPT !.input = resp, !.ret = "internal_error"]
                       ELSE [call EXCEPT !.input = resp, !.ret = "ok",
                                         !.output = SortDefinition(resp)]
           /\ UNCHANGED <<lsp_clients, nonMgrVars>>

\* the reference sites the scanner may emit
Sites == 1..MaxLen

\* what get_symbol_and_references and the analyzer answer in one call of
\* find_referenced_symbols: the scanner fails or emits sites in its order,
\* and the definition request of the i-th site ends as outs[i] says
\* ("unparsable": a result that is no GotoDefinitionResponse)
ReferencedSymbolsInputs(outcomes) ==
    {[scan |-> "error", sites |-> << >>, outs |-> << >>]}
      \cup UNION {{[scan |-> "ok", sites |-> ss, outs |-> os] :
                      ss \in [1..n -> Sites], os \in [1..n -> outcomes]} :
                    n \in 0..MaxLen}

\* a faulty loop that gives up at the first site whose request fails
CollectDefinitions_StopsAtFailure(sites, outs, i) ==
    LET bad == {j \in i..Len(sites) : outs[j] # "ok"}
        last == IF bad = {} THEN Len(sites)
                ELSE (CHOOSE j \in bad : \A k \in bad : j <= k) - 1 IN
      [j \in 1..(last - i + 1) |-> [site |-> sites[i + j - 1], def |-> i + j - 1]]

\* a faulty loop that puts each new pair in front of the collected ones
RECURSIVE CollectDefinitions_Prepends(_, _, _)
CollectDefinitions_Prepends(sites, outs, i) ==
    IF i > Len(sites) THEN << >>
    ELSE CollectDefinitions_Prepends(sites, outs, i + 1)
           \o (IF outs[i] = "ok" THEN <<[site |-> sites[i], def |-> i]>>
               ELSE << >>)

\* the loop of find_referenced_symbols, manager.rs:441-459 and
\* lsp-wrapper/src/manager.rs:321-361, from the i-th site on: the pair of
\* a site whose request succeeded is pushed (def names the request the
\* definition answers), any other site is logged and skipped
RECURSIVE CollectDefinitions(_, _, _)
CollectDefinitions(sites, outs, i) ==
    IF i > Len(sites) THEN << >>
    ELSE (IF outs[i] = "ok" THEN <<[site |-> sites[i], def |-> i]>>
          ELSE << >>)
           \o CollectDefinitions(sites, outs, i + 1)

\* manager.rs:461-468 and lsp-wrapper/src/manager.rs:363-370: the call
\* fails only without any definition for a non-empty reference set
ReferencedSymbolsResult(call, inp) ==
    LET definitions == CollectDefinitions(inp.sites, inp.outs, 1) IN
      IF definitions = << >> /\ inp.sites # << >>
      THEN [call EXCEPT !.ret = "no_definitions"]
      ELSE [call EXCEPT !.ret = "ok", !.output = definitions]

\* Manager::find_referenced_symbols, manager.rs:390-469
FindReferencedSymbols ==
    /\ mgrCall = NoCall
    /\ \E p \in Paths, order \in ClientOrders,
          inp \in ReferencedSymbolsInputs({"ok", "error"}) :
         /\ LET call == [NoCall EXCEPT !.op = "find_referenced_symbols",
                                       !.mgr = "inproc", !.path = p, !.input = inp] IN
              mgrCall' =
                IF p \notin Range(list_files(order))
                THEN [call EXCEPT !.ret = "file_not_found"]
                ELSE IF detect_language(p) # "python"
                THEN [call EXCEPT !.ret = "not_implemented"]
                ELSE IF inp.scan = "error"
                THEN [call EXCEPT !.ret = "scan_error"]
                ELSE IF detect_language(p) \notin lsp_clients
                THEN [call EXCEPT !.ret = "client_not_found"]
                ELSE ReferencedSymbolsResult(call, inp)
         /\ UNCHANGED <<lsp_clients, nonMgrVars>>

\* wrapper Manager::find_referenced_symbols,
\* lsp-wrapper/src/manager.rs:286-371, as a function of the path and of
\* what the scanner and the analyzer answer
WrapperReferencedSymbols(p, inp) ==
    LET call == [NoCall EXCEPT !.op = "find_referenced_symbols",
                               !.mgr = "wrapper", !.path = p, !.input = inp] IN
      IF p \notin WrapperListFiles
      THEN [call EXCEPT !.ret = "file_not_found"]
      ELSE IF inp.scan = "error"
      THEN [call EXCEPT !.ret = "scan_error"]
      ELSE ReferencedSymbolsResult(call, inp)

\* a call of the wrapper Manager's find_referenced_symbols
WrapperFindReferencedSymbols ==
    /\ mgrCall = NoCall
    /\ \E p \in Paths,
          inp \in ReferencedSymbolsInputs({"ok", "error", "unparsable"}) :
         /\ mgrCall' = WrapperReferencedSymbols(p, inp)
         /\ UNCHANGED <<lsp_clients, nonMgrVars>>

\* ContainerManager::find_referenced_symbols, container_manager.rs:237-263:
\* the language is detected, the client of its container is taken or the
\* container spawned (spawned tells whether that succeeds), the request is
\* sent to the wrapper (delivered tells whether the reply arrives), and the
\* reply is dropped: the result is Ok(vec![])
ContainerFindReferencedSymbols ==
    /\ mgrCall = NoCall
    /\ \E p \in Paths \cup {UnsupportedPath}, spawned \in BOOLEAN :
         LET call == [NoCall EXCEPT !.op = "find_referenced_symbols",
                                   !.mgr = "container", !.path = p] IN
           /\ IF detect_language(p) = "unsupported" \/ ~spawned
              THEN mgrCall' = [call EXCEPT !.ret = "internal_error"]
              ELSE \E delivered \in BOOLEAN,
                      inp \in ReferencedSymbolsInputs({"ok", "error", "unparsable"}) :
                     LET reply == WrapperReferencedSymbols(p, inp)
                         sent == [call EXCEPT !.input = [delivered |-> delivered,
                                                         reply |-> reply]] IN
                       mgrCall' =
                         IF ~delivered \/ reply.ret # "ok"
                         THEN [sent EXCEPT !.ret = "internal_error"]
                         ELSE [sent EXCEPT !.ret = "ok", !.output = << >>]
           /\ UNCHANGED <<lsp_clients, nonMgrVars>>

\* what the analyzer answers to textDocument/references: an error or a
\* list of locations
ReferencesResponses ==
    {[kind |-> "error", locs |-> << >>]}
      \cup {[kind |-> "array", locs |-> s] : s \in SeqsUpTo(Locations, MaxLen)}

\* Manager::find_references, manager.rs:359-388: the analyzer's list is
\* returned as it came
FindReferences ==
    /\ mgrCall = NoCall
    /\ \E p \in Paths, order \in ClientOrders :
         LET call == [NoCall EXCEPT !.op = "find_references", !.mgr = "inproc",
                                   !.path = p] IN
           /\ IF p \notin Range(list_files(order))
              THEN mgrCall' = [call EXCEPT !.ret = "file_not_found"]
              ELSE IF detect_language(p) \notin lsp_clients
              THEN mgrCall' = [call EXCEPT !.ret = "client_not_found"]
              ELSE \E resp \in ReferencesResponses :
                     mgrCall' =
                       IF resp.kind = "error"
                       THEN [call EXCEPT !.input = resp, !.ret = "internal_error"]
                       ELSE [call EXCEPT !.input = resp, !.ret = "ok",
                                         !.output = resp.locs]
           /\ UNCHANGED <<lsp_clients, nonMgrVars>>

\* wrapper Manager::find_references, lsp-wrapper/src/manager.rs:226-284:
\* the list is sorted with sort_by
WrapperFindReferences ==
    /\ mgrCall = NoCall
    /\ \E p \in Paths :
         LET call == [NoCall EXCEPT !.op = "find_references", !.mgr = "wrapper",
                                   !.path = p] IN
           /\ IF p \notin WrapperListFiles
              THEN mgrCall' = [call EXCEPT !.ret = "file_not_found"]
              ELSE \E resp \in ReferencesResponses :
                     mgrCall' =
                       IF resp.kind = "error"
                       THEN [call EXCEPT !.input = resp, !.ret = "internal_error"]
                       ELSE [call EXCEPT !.input = resp, !.ret = "ok",
                                         !.output = SortByKey(resp.locs, LocKey)]
           /\ UNCHANGED <<lsp_clients, nonMgrVars>>

\* the orders in which the walk over the workspace may yield its files
WalkOrders == {w \in [1..MaxFiles -> Files] : Range(w) = Files}

\* Manager::list_files, manager.rs:471-487, as a call of its own
ListFiles ==
    /\ mgrCall = NoCall
    /\ \E order \in ClientOrders :
         /\ mgrCall' = [NoCall EXCEPT !.op = "list_files", !.mgr = "inproc",
                                      !.input = order, !.ret = "ok",
                                      !.output = list_files(order)]
         /\ UNCHANGED <<lsp_clients, nonMgrVars>>

\* wrapper Manager::list_files, lsp-wrapper/src/manager.rs:54-80: the
\* relative paths are pushed in the order of the walk and returned
WrapperListFilesWalk ==
    /\ mgrCall = NoCall
    /\ \E walk \in WalkOrders :
         /\ mgrCall' = [NoCall EXCEPT !.op = "list_files", !.mgr = "wrapper",
                                      !.input = walk, !.ret = "ok", !.output = walk]
         /\ UNCHANGED <<lsp_clients, nonMgrVars>>

\* Manager::definitions_in_file_ast_grep, manager.rs:258-273; scan is what
\* the scanner answers
DefinitionsInFile ==
    /\ mgrCall = NoCall
    /\ \E p \in Paths, order \in ClientOrders, scan \in {"ok", "error"} :
         /\ LET call == [NoCall EXCEPT !.op = "definitions_in_file",
                                       !.mgr = "inproc", !.path = p, !.input = scan] IN
              mgrCall' =
                IF p \notin Range(list_files(order))
                THEN [call EXCEPT !.ret = "file_not_found"]
                ELSE IF scan = "error" THEN [call EXCEPT !.ret = "internal_error"]
                ELSE [call EXCEPT !.ret = "ok"]
         /\ UNCHANGED <<lsp_clients, nonMgrVars>>

\* wrapper Manager::get_definitions_in_file,
\* lsp-wrapper/src/manager.rs:107-130
WrapperDefinitionsInFile ==
    /\ mgrCall = NoCall
    /\ \E p \in Paths, scan \in {"ok", "error"} :
         /\ LET call == [NoCall EXCEPT !.op = "definitions_in_file",
                                       !.mgr = "wrapper", !.path = p, !.input = scan] IN
              mgrCall' =
                IF p \notin WrapperListFiles
                THEN [call EXCEPT !.ret = "file_not_found"]
                ELSE IF scan = "error" THEN [call EXCEPT !.ret = "internal_error"]
                ELSE [call EXCEPT !.ret = "ok"]
         /\ UNCHANGED <<lsp_clients, nonMgrVars>>

\* Manager::get_symbol_from_position, manager.rs:275-290, and the wrapper's,
\* lsp-wrapper/src/manager.rs:132-147 (m tells which): the scanner is asked
\* at once; it finds a symbol only in a file that exists
GetSymbolFromPosition ==
    /\ mgrCall = NoCall
    /\ \E m \in {"inproc", "wrapper"}, p \in Paths, scan \in {"ok", "error"} :
         /\ scan = "ok" => p \in Files
         /\ mgrCall' = [NoCall EXCEPT !.op = "get_symbol_from_position", !.mgr = m,
                                      !.path = p, !.input = scan,
                                      !.ret = IF scan = "error" THEN "internal_error"
                                              ELSE "ok"]
         /\ UNCHANGED <<lsp_clients, nonMgrVars>>

\* a path that leaves the workspace ("../x") and names a file outside it
OutsidePath == MaxFiles + 2

\* the texts a line of a file may have
LineTexts == 1..MaxLen

\* no range given: Option<Range> is None
NoRange == [start |-> -1, end |-> -1]

\* the start line and the end line of a Range (its characters are not read)
Ranges == {NoRange} \cup [start : 0..MaxPos, end : 0..MaxPos]

\* the arguments of read_source_code besides the path, and the file's
\* state: whether it can be read, and content.lines()
ReadInputs == [range : Ranges, readable : BOOLEAN,
               lines : SeqsUpTo(LineTexts, MaxLen)]

Min(a, b) == IF a <= b THEN a ELSE b

\* the slice lines[from..to] (to excluded, indices from 0): Rust panics
\* when from > to
Slice(lines, from, to) ==
    IF from > to THEN [ret |-> "panic", out |-> << >>]
    ELSE [ret |-> "ok", out |-> SubSeq(lines, from + 1, to)]

\* read_source_code of the gateway, handlers/read_source_code.rs:26-98: the
\* path must resolve (404 otherwise) to a file under the workspace (400
\* otherwise); the lines start_line..min(end_line, len) are joined
GatewayReadSourceCode ==
    /\ mgrCall = NoCall
    /\ \E p \in Paths \cup {OutsidePath}, inp \in ReadInputs :
         /\ LET call == [NoCall EXCEPT !.op = "read_source_code", !.mgr = "gateway",
                                       !.path = p, !.input = inp]
                n == Len(inp.lines)
                r == Slice(inp.lines, inp.range.start, Min(inp.range.end, n)) IN
              mgrCall' =
                IF p = MissingPath THEN [call EXCEPT !.ret = "file_not_found"]
                ELSE IF p = OutsidePath THEN [call EXCEPT !.ret = "bad_request"]
                ELSE IF ~inp.readable THEN [call EXCEPT !.ret = "internal_error"]
                ELSE IF inp.range = NoRange
                THEN [call EXCEPT !.ret = "ok", !.output = inp.lines]
                ELSE IF inp.range.start >= n THEN [call EXCEPT !.ret = "bad_request"]
                ELSE [call EXCEPT !.ret = r.ret, !.output = r.out]
         /\ UNCHANGED <<lsp_clients, nonMgrVars>>

\* wrapper Manager::read_source_code, lsp-wrapper/src/manager.rs:373-402:
\* the file under the mount directory is read whatever the path is; the
\* lines start_line..=min(end_line, len - 1) are joined
WrapperReadSourceCode ==
    /\ mgrCall = NoCall
    /\ \E p \in Paths \cup {OutsidePath}, inp \in ReadInputs :
         /\ LET call == [NoCall EXCEPT !.op = "read_source_code", !.mgr = "wrapper",
                                       !.path = p, !.input = inp]
                n == Len(inp.lines)
                r == Slice(inp.lines, inp.range.start, Min(inp.range.end, n - 1) + 1) IN
              mgrCall' =
                IF p = MissingPath \/ ~inp.readable
                THEN [call EXCEPT !.ret = "internal_error"]
                ELSE IF inp.range = NoRange
                THEN [call EXCEPT !.ret = "ok", !.output = inp.lines]
                ELSE IF inp.range.start >= n THEN [call EXCEPT !.ret = "internal_error"]
                ELSE [call EXCEPT !.ret = r.ret, !.output = r.out]
         /\ UNCHANGED <<lsp_clients, nonMgrVars>>

\* Manager::read_source_code, manager.rs:489-506: the client of the path's
\* language reads the document.  detect_language is given the relative
\* path, so the Sorbet comment is found only when the working directory is
\* the mount directory (inCwd); the text read_text_document returns is not
\* modelled, only whether it succeeds
ReadSourceCode ==
    /\ mgrCall = NoCall
    /\ \E p \in Paths, inp \in ReadInputs, inCwd \in BOOLEAN :
         /\ LET call == [NoCall EXCEPT !.op = "read_source_code", !.mgr = "inproc",
                                       !.path = p, !.input = inp]
                lang == IF inCwd \/ Extension(p) = "py" THEN detect_language(p)
                        ELSE "ruby" IN
              mgrCall' =
                IF lang \notin lsp_clients THEN [call EXCEPT !.ret = "client_not_found"]
                ELSE IF p \notin Files \/ ~inp.readable
                THEN [call EXCEPT !.ret = "internal_error"]
                ELSE [call EXCEPT !.ret = "ok"]
         /\ UNCHANGED <<lsp_clients, nonMgrVars>>

\* the host the containers' ports are published on, orchestrator.rs:42-43
ContainerHost == "0.0.0.0"

\* URLs are sequences of tokens.  The endpoint stored in a container's
\* record, orchestrator.rs:111: format!("http://{}:{}", host, port)
Endpoint(port) == <<"http", ":", "//", ContainerHost, ":", ToString(port)>>

\* ContainerHttpClient::new, http_client.rs:18-23: the base URL is
\* format!("http://{}", endpoint)
ContainerHttpClientNew(endpoint) == <<"http", ":", "//">> \o endpoint

\* the requests of ContainerHttpClient, http_client.rs:26-160
ClientRoutes ==
    {[op |-> "health", method |-> "GET", path |-> "/health"],
     [op |-> "find_definition", method |-> "POST", path |-> "/symbol/find-definition"],
     [op |-> "find_references", method |-> "POST", path |-> "/symbol/find-references"],
     [op |-> "find_identifier", method |-> "POST", path |-> "/symbol/find-identifier"],
     [op |-> "find_referenced_symbols", method |-> "POST",
      path |-> "/symbol/find-referenced-symbols"],
     [op |-> "definitions_in_file", method |-> "POST",
      path |-> "/symbol/definitions-in-file"],
     [op |-> "list_files", method |-> "GET", path |-> "/file/list-files"],
     [op |-> "read_source", method |-> "POST", path |-> "/file/read-source"]}

\* the routes of the wrapper service, lsp-wrapper/src/main.rs:103-114
WrapperRoutes ==
    {[method |-> "GET", path |-> "/health"],
     [method |-> "POST", path |-> "/symbol/find-identifier"],
     [method |-> "POST", path |-> "/symbol/find-definition"],
     [method |-> "POST", path |-> "/symbol/find-references"],
     [method |-> "POST", path |-> "/symbol/find-referenced-symbols"],
     [method |-> "POST", path |-> "/symbol/definitions-in-file"],
     [method |-> "GET", path |-> "/workspace/list-files"],
     [method |-> "POST", path |-> "/workspace/read-source-code"]}

\* the tokens that begin with a slash
SlashTokens == {"//"} \cup {r.path : r \in ClientRoutes \cup WrapperRoutes}

\* how a URL scheme://authority/path is read: the authority runs from
\* behind the first "//" to the next token that begins with a slash; it is
\* host or host:port (port 80 when none is given); the rest is the path
ParseUrl(url) ==
    LET slashes == {i \in 4..Len(url) : url[i] \in SlashTokens}
        end == IF slashes = {} THEN Len(url) + 1
               ELSE CHOOSE i \in slashes : \A j \in slashes : i <= j
        authority == SubSeq(url, 4, end - 1) IN
      [host |-> IF authority = << >> THEN "" ELSE authority[1],
       port |-> IF Len(authority) >= 3 /\ authority[2] = ":" THEN authority[3]
                ELSE "80",
       path |-> SubSeq(url, end, Len(url))]

\* a request of ContainerHttpClient to the container published on a port:
\* format!("{}/...", self.base_url) is requested; a request that does not
\* reach the wrapper fails in transport, one for a route the wrapper does
\* not serve is answered with 404
HttpClientRequest ==
    /\ mgrCall = NoCall
    /\ \E port \in Ports, r \in ClientRoutes :
         LET url == ContainerHttpClientNew(Endpoint(port)) \o <<r.path>>
             target == ParseUrl(url) IN
           /\ mgrCall' =
                [NoCall EXCEPT !.op = r.op, !.mgr = "http_client",
                               !.input = [port |-> port, method |-> r.method,
                                          url |-> url],
                               !.ret = IF target.host # ContainerHost
                                          \/ target.port # ToString(port)
                                       THEN "transport_error"
                                       ELSE IF \E w \in WrapperRoutes :
                                                 /\ w.method = r.method
                                                 /\ <<w.path>> = target.path
                                       THEN "ok" ELSE "no_route"]
           /\ UNCHANGED <<lsp_clients, nonMgrVars>>

\* the endpoints of the gateway that forward to a language container
ForwardedOps == {"find_definition", "find_references", "find_identifier",
                 "find_referenced_symbols", "definitions_in_file"}

\* how a forwarded request ends at the container: the reply has a success
\* status and decodes, it has another status, its body does not decode, or
\* the request fails in transport (http_client.rs:38-119)
ContainerReplies == {"success", "failure", "undecodable", "transport_error"}

\* the handlers of the forwarded endpoints, handlers/find_definition.rs:20-56
\* and its four siblings: get_client_for_file (container_proxy.rs:41-50)
\* detects the language and gets or spawns the container, then the request
\* is forwarded; every failure on the way is answered with 500
GatewayForward ==
    /\ mgrCall = NoCall
    /\ \E o \in ForwardedOps, p \in Paths \cup {OutsidePath, UnsupportedPath},
          spawned \in BOOLEAN, reply \in ContainerReplies :
         \* the wrapper fails with FileNotFound for a path it does not list
         \* (lsp-wrapper/src/manager.rs:92, 117, 159, 236, 297)
         /\ reply = "success" => p \in Files
         /\ LET call == [NoCall EXCEPT !.op = o, !.mgr = "gateway", !.path = p] IN
              mgrCall' =
                IF detect_language(p) = "unsupported"
                THEN [call EXCEPT !.ret = "internal_error",
                                  !.input = [client |-> "none", reply |-> "none"]]
                ELSE IF ~spawned
                THEN [call EXCEPT !.ret = "internal_error",
                                  !.input = [client |-> "failed", reply |-> "none"]]
                ELSE [call EXCEPT !.ret = IF reply = "success" THEN "ok"
                                          ELSE "internal_error",
                                  !.input = [client |-> "ok", reply |-> reply]]
         /\ UNCHANGED <<lsp_clients, nonMgrVars>>

(***************************************************************************)
(* The file searches of utils/file_utils.rs.  A directory tree is a set of *)
(* nodes, node 1 the root that is searched; every other node has a parent  *)
(* of a smaller number, which is a directory.                              *)
(***************************************************************************)
\* the nodes of the trees that the model searches
MaxNodes == 3

Nodes == 1..MaxNodes

\* the root of the search
Root == 1

Trees ==
    {t \in [Nodes -> [parent : 0..MaxNodes, dir : BOOLEAN]] :
       /\ t[Root] = [parent |-> 0, dir |-> TRUE]
       /\ \A n \in Nodes \ {Root} : t[n].parent \in 1..(n - 1) /\ t[t[n].parent].dir}

\* the arguments of a search: the tree under the root, the entries that
\* one of the include globs matches, those that one of the exclude globs
\* matches, and the kind of path asked for
SearchInputs ==
    [tree : Trees, include : SUBSET Nodes, exclude : SUBSET Nodes,
     file_type : {"File", "Dir"}]

\* the orders in which the members of a set may come
OrdersOf(S) == {o \in [1..Cardinality(S) -> S] : Range(o) = S}

\* no path: Option::None of FileType::accept
NoPath == 0

\* FileType::accept, file_utils.rs:27-34
accept(t, file_type, n) ==
    IF file_type = "Dir" THEN (IF t[n].dir THEN n ELSE t[n].parent)
    ELSE IF ~t[n].dir THEN n ELSE NoPath

\* the walk that build_walk builds, file_utils.rs:163-177, from node n on:
\* the entry, then the walks of its children that filter_entry lets pass;
\* an excluded directory is not descended into
RECURSIVE Walk(_, _, _)
Walk(t, exclude, n) ==
    <<n>> \o Flatten([i \in 1..Cardinality({c \in Nodes : t[c].parent = n /\ c \notin exclude})
                        |-> Walk(t, exclude,
                                 SetToSortedSeq({c \in Nodes : t[c].parent = n
                                                              /\ c \notin exclude})[i])])

\* the entries the parallel walker of search_paths hands to the visitors,
\* file_utils.rs:87-98: the root and every node below it that filter_entry
\* lets pass, as do all directories between the root and it
RECURSIVE Reached(_, _, _)
Reached(t, exclude, n) ==
    n = Root \/ (n \notin exclude /\ Reached(t, exclude, t[n].parent))

\* the body of the loop, file_utils.rs:49-62, and of the visitor,
\* file_utils.rs:109-134, over the entries in the order they come: an
\* entry that an include glob matches and that accept maps to a path
\* pushes that path
PushAccepted(inp, entries) ==
    Flatten([i \in DOMAIN entries |->
               IF entries[i] \in inp.include
                  /\ accept(inp.tree, inp.file_type, entries[i]) # NoPath
               THEN <<accept(inp.tree, inp.file_type, entries[i])>>
               ELSE << >>])

\* a faulty collection that returns the pushed paths as they are
Collected_KeepsDuplicates(paths) == {paths}

\* file_utils.rs:68-72 and 156-160: the pushed paths are collected into a
\* HashSet and from it into a vector, in the order the set iterates
Collected(paths) == OrdersOf(Range(paths))

\* search_paths_sequential, file_utils.rs:37-73
SearchPathsSequential ==
    /\ mgrCall = NoCall
    /\ \E inp \in SearchInputs :
         \E out \in Collected(PushAccepted(inp, Walk(inp.tree, inp.exclude, Root))) :
           /\ mgrCall' = [NoCall EXCEPT !.op = "search_paths", !.mgr = "sequential",
                                        !.input = inp, !.ret = "ok", !.output = out]
           /\ UNCHANGED <<lsp_clients, nonMgrVars>>

\* search_paths, file_utils.rs:75-161: the visitors of the parallel walker
\* get the entries in any order and push under the mutex
SearchPaths ==
    /\ mgrCall = NoCall
    /\ \E inp \in SearchInputs :
         \E visits \in OrdersOf({n \in Nodes : Reached(inp.tree, inp.exclude, n)}) :
           \E out \in Collected(PushAccepted(inp, visits)) :
             /\ mgrCall' = [NoCall EXCEPT !.op = "search_paths", !.mgr = "parallel",
                                          !.input = inp, !.ret = "ok", !.output = out]
             /\ UNCHANGED <<lsp_clients, nonMgrVars>>

\* the trees of directories
DirTrees == {t \in Trees : \A n \in Nodes : t[n].dir}

\* a Go workspace: its directories, those that hold a go.work file, those
\* that hold a go.mod file, and those that DEFAULT_EXCLUDE_PATTERNS or a
\* .gitignore keep out of a search
GoWorkspaces ==
    [tree : DirTrees, work : SUBSET Nodes, mod : SUBSET Nodes,
     exclude : SUBSET (Nodes \ {Root})]

\* the go.mod files that search_paths finds for "**/go.mod", golang.rs:85-97,
\* each named by the directory that holds it
GoModFiles(ws) == {d \in ws.mod : Reached(ws.tree, ws.exclude, d)}

\* GoplsClient::find_workspace_folders, golang.rs:54-138: with a go.work
\* file at the root the root alone; else the parent directory of every
\* go.mod file, in the order the search returned them; the root when there
\* is none
find_workspace_folders(ws, go_mod_files) ==
    IF Root \in ws.work THEN <<Root>>
    ELSE IF go_mod_files = << >> THEN <<Root>>
    ELSE go_mod_files

\* a call of find_workspace_folders on a workspace
FindWorkspaceFolders ==
    /\ mgrCall = NoCall
    /\ \E ws \in GoWorkspaces :
         \E go_mod_files \in OrdersOf(GoModFiles(ws)) :
           /\ mgrCall' = [NoCall EXCEPT
                            !.op = "find_workspace_folders", !.mgr = "gopls",
                            !.input = ws, !.ret = "ok",
                            !.output = find_workspace_folders(ws, go_mod_files)]
           /\ UNCHANGED <<lsp_clients, nonMgrVars>>

(***************************************************************************)
(* The session's next-state relation and specification.                    *)
(***************************************************************************)
SessionNext ==
    \/ \E c \in Callers :
         \E rid \in (IF c = InitCaller THEN {NoId} ELSE {NoId, ManagerRequestId}) :
           AssignId(c, rid)
    \/ \E c \in Callers : AddRequest(c)
    \/ \E c \in Callers : WriteHeader(c)
    \/ \E c \in Callers : WriteRequest(c)
    \/ \E c \in Callers : RecvResponse(c)
    \/ InitializeFinish
    \/ \E i \in DOMAIN stdin : \E kind \in {"result", "error"} :
         ChildRespond(i, kind)
    \/ \E c \in Users : Abandon(c)
    \/ \E kind \in Unsolicited : \E id \in ServerRequestIds \cup {NoId} :
         ChildSend(id, kind)
    \/ ChildExit
    \/ ReaderRoute
    \/ ReaderBadHeader
    \/ ReaderSwallow
    \/ ReaderReadError
    \/ ReaderEof

Init == SessionInit /\ OrchInit /\ MgrInit

SessionSpec == Init /\ [][SessionNext]_vars

OrchSpec == Init /\ [][OrchNext]_vars

(***************************************************************************)
(* ContainerOrchestrator::check_container_health, orchestrator.rs:154-193. *)
(* Time is counted in ticks of the 500 ms sleep between two polls.         *)
(***************************************************************************)
\* the 30-second limit of the loop (line 156), in ticks
HealthTimeout == 4

\* the 2-second limit of one poll (line 163), in ticks
PollTimeout == 2

\* the sleep after a poll that did not succeed (line 180), in ticks
PollSleep == 1

\* what one poll of /health gives and how long it took: a success status, a
\* status that is no success, a connection error at once, or no answer
\* within the poll's limit
PollOutcomes ==
    {[result |-> "success", dur |-> 0], [result |-> "status", dur |-> 0],
     [result |-> "error", dur |-> 0], [result |-> "error", dur |-> PollTimeout]}

\* what the polls would give, one after the other; every round takes at
\* least the sleep, so HealthTimeout polls are enough
PollRuns == [1..HealthTimeout -> PollOutcomes]

\* get_container_logs, lines 203-223: the log text, None when it is empty
\* or cannot be read
NoLogs == "none"

LogResults == {"log lines", NoLogs}

\* lines 183-192: the message of the HealthCheck error
HealthCheckMessage(logs) ==
    IF logs = NoLogs THEN "Could not retrieve logs" ELSE logs

\* a faulty loop that gives up at the first poll that does not succeed
PollFrom_NoRetry(polls, i, elapsed, logs) ==
    IF polls[i].result = "success"
    THEN [ret |-> "ok", polled |-> i, elapsed |-> elapsed + polls[i].dur,
          message |-> ""]
    ELSE [ret |-> "health_check", polled |-> i,
          elapsed |-> elapsed + polls[i].dur,
          message |-> HealthCheckMessage(logs)]

\* lines 162-181, the loop from poll i on with `elapsed` ticks gone, then
\* lines 183-192
RECURSIVE PollFrom(_, _, _, _)
PollFrom(polls, i, elapsed, logs) ==
    IF elapsed >= HealthTimeout
    THEN [ret |-> "health_check", polled |-> i - 1, elapsed |-> elapsed,
          message |-> HealthCheckMessage(logs)]
    ELSE IF polls[i].result = "success"
         THEN [ret |-> "ok", polled |-> i, elapsed |-> elapsed + polls[i].dur,
               message |-> ""]
         ELSE PollFrom(polls, i + 1, elapsed + polls[i].dur + PollSleep, logs)

check_container_health(polls, logs) == PollFrom(polls, 1, 0, logs)

CheckContainerHealth ==
    /\ mgrCall = NoCall
    /\ \E polls \in PollRuns, logs \in LogResults :
         /\ LET r == check_container_health(polls, logs) IN
              mgrCall' = [NoCall EXCEPT
                            !.op = "check_container_health",
                            !.mgr = "orchestrator", !.ret = r.ret,
                            !.input = [polls |-> polls, logs |-> logs],
                            !.output = r]
         /\ UNCHANGED <<lsp_clients, nonMgrVars>>

(***************************************************************************)
(* The locks a task holds at its suspension points.  An operation is the   *)
(* sequence of its lock acquisitions (a suspension until the lock is       *)
(* free), releases (the guard goes out of scope) and other awaits, in the  *)
(* order of the source.                                                    *)
(***************************************************************************)
Acquire(l) == [do |-> "lock", on |-> l]

Release(l) == [do |-> "unlock", on |-> l]

Await(x) == [do |-> "await", on |-> x]

LockPrograms ==
    [\* LspProcess::send_request, lsp_process.rs:198-229
     send_request |->
        <<Acquire("request_id"), Release("request_id"),
          Acquire("pending"), Release("pending"),
          Acquire("stdin"), Await("pipe"), Release("stdin"),
          Await("analyzer")>>,
     \* start_response_listener, lsp_process.rs:250-334
     reader |->
        <<Await("analyzer"), Acquire("pending"), Release("pending")>>,
     \* spawn_container, orchestrator.rs:24-131, with get_container and
     \* store_container, mod.rs:162-169
     spawn_container |->
        <<Acquire("containers"), Release("containers"), Await("docker"),
          Acquire("containers"), Release("containers"), Await("http")>>,
     \* stop_container, mod.rs:131-159, with remove_container, 172-174
     stop_container |->
        <<Acquire("containers"), Release("containers"), Await("docker")>>,
     \* ContainerManager::get_client with a client, container_manager.rs:
     \* 95-105: get_container is awaited inside the block of the guard
     get_client |->
        <<Acquire("http_clients"), Acquire("containers"),
          Release("containers"), Release("http_clients")>>,
     \* ContainerManager::list_files, container_manager.rs:266-283: the
     \* guard lives to the end of the function
     list_files |->
        <<Acquire("http_clients"), Await("http"), Release("http_clients")>>,
     \* Manager::find_definition, manager.rs:309-318: the guard of the
     \* client's Mutex lives across text_document_definition
     find_definition |->
        <<Acquire("client"), Await("analyzer"), Release("client")>>]

\* the locks held after the first n steps of a program
RECURSIVE HeldAfter(_, _)
HeldAfter(prog, n) ==
    IF n = 0 THEN {}
    ELSE LET h == HeldAfter(prog, n - 1) IN
           IF prog[n].do = "lock" THEN h \cup {prog[n].on}
           ELSE IF prog[n].do = "unlock" THEN h \ {prog[n].on}
           ELSE h

\* a task enters one of the operations; it is at its first step
LockCall ==
    /\ mgrCall = NoCall
    /\ \E name \in DOMAIN LockPrograms :
         mgrCall' = [NoCall EXCEPT
                       !.op = "suspensions", !.mgr = "locks",
                       !.ret = "running",
                       !.input = [name |-> name, steps |-> LockPrograms[name]],
                       !.output = [at |-> 1, held |-> {}]]
    /\ UNCHANGED <<lsp_clients, nonMgrVars>>

\* the task takes its next step: the lock it waited for is acquired, the
\* guard is dropped, or what it awaited has arrived
LockStep ==
    /\ mgrCall.mgr = "locks"
    /\ mgrCall.ret = "running"
    /\ LET at == mgrCall.output.at
           prog == mgrCall.input.steps IN
         mgrCall' = [mgrCall EXCEPT
                       !.ret = IF at = Len(prog) THEN "ok" ELSE "running",
                       !.output = [at |-> at + 1,
                                   held |-> HeldAfter(prog, at)]]
    /\ UNCHANGED <<lsp_clients, nonMgrVars>>

MgrNext ==
    \/ StartLangservers
    \/ LockCall
    \/ LockStep
    \/ CheckContainerHealth
    \/ StartContainers
    \/ GetEnabledLanguages
    \/ FindDefinition
    \/ WrapperFindDefinition
    \/ FindReferencedSymbols
    \/ WrapperFindReferencedSymbols
    \/ FindReferences
    \/ WrapperFindReferences
    \/ ListFiles
    \/ WrapperListFilesWalk
    \/ DefinitionsInFile
    \/ WrapperDefinitionsInFile
    \/ GetSymbolFromPosition
    \/ GatewayReadSourceCode
    \/ WrapperReadSourceCode
    \/ ReadSourceCode
    \/ ContainerFindReferencedSymbols
    \/ HttpClientRequest
    \/ GatewayForward
    \/ ManagerReturn

ManagerSpec == Init /\ [][MgrNext]_vars

SearchNext ==
    \/ SearchPathsSequential
    \/ SearchPaths
    \/ FindWorkspaceFolders
    \/ ManagerReturn

SearchSpec == Init /\ [][SearchNext]_vars

(***************************************************************************)
(* Claims about the session.                                               *)
(***************************************************************************)
\* a caller inside send_request that has registered and not yet been given
\* a message
AwaitsResponse(c) ==
    /\ pc[c] \in InFlight
    /\ mailbox[c] = NoMsg

\* C1: every caller that gets a result gets the result of the response to the
\* request it wrote itself, and no caller that still waits has lost its
\* entry of the pending table to another caller.
C1_OwnResponse ==
    /\ \A c \in Callers : outcome[c].kind = "ok" => outcome[c].of = c
    /\ \A c \in Callers : AwaitsResponse(c) => HasSender(c)

\* C2: the requests written to the analyzer carry pairwise different ids, and
\* no two callers that wait for a response are registered under one id (the
\* later registration would replace the earlier caller's entry).
C2_IdsNeverReused ==
    /\ \A i, j \in DOMAIN stdin :
         (i # j /\ stdin[i].id # NoId /\ stdin[j].id # NoId)
           => stdin[i].id # stdin[j].id
    /\ \A c, d \in Callers :
         (c # d /\ AwaitsResponse(c) /\ AwaitsResponse(d)) => reqId[c] # reqId[d]

\* C5: in the step in which the reader task stops, every entry of the pending
\* table is completed with a failure signal: the table is empty afterwards,
\* so that every blocked recv() returns.
C5_ReaderStopFailsPending ==
    [][(readerState # "stopped" /\ readerState' = "stopped")
         => DOMAIN channels' = {}]_vars

\* nothing of the session is in progress: no caller is inside send_request,
\* the child has answered every request and the reader has read every frame
SessionQuiescent ==
    /\ \A c \in Callers : pc[c] \in {"idle", "done"}
    /\ \A i \in DOMAIN stdin : stdin[i].id # NoId => i \in answered
    /\ stdout = << >>

\* C6: no entry stays in the pending table for ever: once nothing is in
\* progress any more, every inserted entry has been completed or cancelled
\* and removed.
C6_NoEntryLeftBehind == SessionQuiescent => DOMAIN channels = {}

C8_RequestsOnlyWhenReady ==
    [][(Len(stdin') > Len(stdin) /\ stdin'[Len(stdin')].method = "request")
         => (sessionState = "ready" /\ readerState = "running")]_vars

(***************************************************************************)
(* Claims about the orchestrator.                                          *)
(***************************************************************************)
\* the containers the daemon has created for a language
ContainersOf(l) == {c \in DOMAIN docker : docker[c].lang = l}

\* C3: as long as no stop_container has taken a record of the language, at
\* most one container is created for it, and the callers that got a record
\* got the same one.
C3_OneContainerPerTag ==
    \A l \in Langs :
      (ContainersOf(l) \cap stopTaken = {}) =>
        /\ Cardinality(ContainersOf(l)) <= 1
        /\ \A t, u \in Tasks :
             (task[t].lang = l /\ task[u].lang = l
              /\ task[t].pc = "done" /\ task[u].pc = "done"
              /\ task[t].ret = "ok" /\ task[u].ret = "ok"
              /\ task[t].op # "stop_container" /\ task[u].op # "stop_container")
               => task[t].retCid = task[u].retCid

\* C4: when spawn_container fails on the health check, the container map
\* holds no record for the language afterwards.
C4_HealthFailureLeavesNoRecord ==
    [][\A t \in Tasks :
         (task[t].pc = "health" /\ task'[t].ret = "err_health")
           => containers'[task[t].lang] = NoRecord]_vars

\* C9: a record of the container map stays the same record until
\* stop_container removes it, whatever further requests are served.
C9_RecordStableUntilStop ==
    [][\A l \in Langs :
         containers[l] # NoRecord
           => (containers'[l] = containers[l] \/ containers'[l] = NoRecord)]_vars

\* the spawns that hold a reserved port whose record is not stored yet
Reserving == {t \in Tasks : task[t].pc \in {"create", "start", "store"}}

StopRemovedBeforeDaemonCalls(t) ==
    task'[t].pc \in {"docker_stop", "docker_remove"}
      => containers'[task'[t].lang].cid # task'[t].cid

\* the forced removal follows the graceful stop whatever the stop returned
StopForceRemoveFollows(t) ==
    (task[t].pc = "docker_stop" /\ task'[t] # task[t])
      => task'[t].pc = "docker_remove"

\* task t returns from stop_container in this step
StopReturns(t) ==
    /\ task[t].pc # "done"
    /\ task'[t].pc = "done"
    /\ task'[t].op = "stop_container"

\* C11: stop_container takes the record out of the map before its daemon
\* calls, the forced removal follows a failed graceful stop, and when
\* stop_container returns, with Ok or with a daemon error, the map holds no
\* record of the container it stopped (a spawn that ran meanwhile may have
\* stored the record of a new container for the tag).
C11_StopLeavesNoRecordOfContainer ==
    [][\A t \in Tasks :
         /\ StopRemovedBeforeDaemonCalls(t)
         /\ StopForceRemoveFollows(t)
         /\ StopReturns(t) =>
              IF task[t].cid = NoCid
              THEN containers'[task'[t].lang] = NoRecord
              ELSE containers'[task'[t].lang].cid # task[t].cid]_vars

\* C11 as stated: when stop_container returns, the map holds no record for
\* the tag at all.
C11_StopLeavesNoRecordOfTag ==
    [][\A t \in Tasks :
         /\ StopRemovedBeforeDaemonCalls(t)
         /\ StopForceRemoveFollows(t)
         /\ StopReturns(t) => containers'[task'[t].lang] = NoRecord]_vars

\* a stop_container that took a record has returned the daemon's error of
\* the forced removal, and the container it stopped never left "running"
\* (its graceful stop failed as well)
C11_Witness ==
    \E t \in Tasks :
      /\ task[t].op = "stop_container"
      /\ task[t].pc = "done"
      /\ task[t].ret = "err_docker"
      /\ \E c \in stopTaken : docker[c].status = "running"

(***************************************************************************)
(* Claims about the life of the analyzer session.                          *)
(***************************************************************************)
\* the session has terminated through a transport failure: the reader task
\* has ended on a read error, or the child's pipes are closed
SessionTerminated == readerState = "stopped" \/ ~childAlive

\* C12: a request that arrives after the session has terminated through a
\* transport failure is not given to the terminated session (it is served
\* by a fresh one).
C12_DeadSessionNotUsed ==
    [][\A c \in Users :
         (pc[c] = "idle" /\ pc'[c] = "assigned") => ~SessionTerminated]_vars

(***************************************************************************)
(* Claims about the managers.                                              *)
(***************************************************************************)
\* C13: a find_definition request for a file of the workspace does not fail
\* because its language has no analyzer yet: the analyzer is started and
\* the request is given to it.
C13_AnalyzerStartedOnDemand ==
    (mgrCall.op = "find_definition" /\ mgrCall.mgr = "inproc"
     /\ mgrCall.path \in Files)
      => mgrCall.ret \notin {"file_not_found", "client_not_found"}

\* a find_referenced_symbols call that got as far as asking the analyzer
ReferencedSymbolsAsked ==
    /\ mgrCall.op = "find_referenced_symbols"
    /\ mgrCall.mgr \in {"inproc", "wrapper"}
    /\ mgrCall.ret \in {"ok", "no_definitions"}

\* the requests of the call that succeeded
SucceededSites == {i \in DOMAIN mgrCall.input.sites : mgrCall.input.outs[i] = "ok"}

\* C14: find_referenced_symbols returns one pair for every reference site
\* whose definition request succeeded and none for the others; it fails as
\* a whole exactly when the reference set is non-empty and no site yielded
\* a definition; with an empty reference set it succeeds with no pair.
C14_PartialFailurePolicy ==
    ReferencedSymbolsAsked =>
      /\ (mgrCall.ret = "no_definitions")
           <=> (mgrCall.input.sites # << >> /\ SucceededSites = {})
      /\ mgrCall.ret = "ok" =>
           /\ Len(mgrCall.output) = Cardinality(SucceededSites)
           /\ Range(mgrCall.output) =
                {[site |-> mgrCall.input.sites[i], def |-> i] : i \in SucceededSites}
      /\ mgrCall.input.sites = << >> =>
           (mgrCall.ret = "ok" /\ mgrCall.output = << >>)

\* a call in which one site failed and another succeeded has returned the
\* pair of the one that succeeded
C14_Witness ==
    /\ ReferencedSymbolsAsked
    /\ mgrCall.ret = "ok"
    /\ Len(mgrCall.output) >= 1
    /\ Len(mgrCall.output) < Len(mgrCall.input.sites)

\* s is a subsequence of t, entry by entry
IsSubsequence(s, t) ==
    \E f \in [DOMAIN s -> DOMAIN t] :
      /\ \A i, j \in DOMAIN s : i < j => f[i] < f[j]
      /\ \A i \in DOMAIN s : s[i] = t[f[i]]

\* C15: the reference sites of the returned pairs are a subsequence of the
\* sites the scanner emitted, each pair with the definition of its own
\* site, for every pattern of successes and failures.
C15_ScannerOrderKept ==
    (mgrCall.op = "find_referenced_symbols"
     /\ mgrCall.mgr \in {"inproc", "wrapper"} /\ mgrCall.ret = "ok") =>
      /\ IsSubsequence([i \in DOMAIN mgrCall.output |-> mgrCall.output[i].site],
                        mgrCall.input.sites)
      /\ IsSubsequence([i \in DOMAIN mgrCall.output |-> mgrCall.output[i].def],
                        [i \in DOMAIN mgrCall.input.sites |-> i])

\* two pairs were returned for two different sites, the larger site first
\* in the scanner's order
C15_Witness ==
    /\ mgrCall.op = "find_referenced_symbols"
    /\ mgrCall.mgr \in {"inproc", "wrapper"}
    /\ mgrCall.ret = "ok"
    /\ Len(mgrCall.output) >= 2
    /\ mgrCall.output[1].site > mgrCall.output[2].site

\* C16: the array of locations or links that find_definition returns is
\* strictly sorted by (relative path, start line, start character).
C16_DefinitionStrictlySorted ==
    (mgrCall.op = "find_definition" /\ mgrCall.mgr \in {"inproc", "wrapper"}
     /\ mgrCall.ret = "ok" /\ mgrCall.input.kind \in {"array", "link"})
      => \A i \in 1..(Len(mgrCall.output) - 1) :
           LocKey[mgrCall.output[i]] < LocKey[mgrCall.output[i + 1]]

\* C17: the list of locations that find_references returns is sorted by
\* (relative path, start line, start character), in the in-process Manager
\* and in the wrapper Manager.
C17_ReferencesSorted ==
    (mgrCall.op = "find_references" /\ mgrCall.mgr \in {"inproc", "wrapper"}
     /\ mgrCall.ret = "ok")
      => \A i \in 1..(Len(mgrCall.output) - 1) :
           LocKey[mgrCall.output[i]] <= LocKey[mgrCall.output[i + 1]]

\* the document sets of the analyzers that serve the call
ListedDocuments ==
    IF mgrCall.mgr = "inproc"
    THEN UNION {WorkspaceDocuments(l) : l \in lsp_clients}
    ELSE Files

\* C18: list_files returns the union of the analyzers' document sets in
\* ascending order and without duplicates, whatever analyzers run; the list
\* is thereby determined by the workspace, so repeated calls return it again.
C18_ListFilesSortedUnique ==
    (mgrCall.op = "list_files" /\ mgrCall.mgr \in {"inproc", "wrapper"}) =>
      /\ Range(mgrCall.output) = ListedDocuments
      /\ \A i \in 1..(Len(mgrCall.output) - 1) :
           FileKey[mgrCall.output[i]] < FileKey[mgrCall.output[i + 1]]

\* the manager operations that take a path
PathBearing == {"definitions_in_file", "get_symbol_from_position",
                "find_definition", "find_references",
                "find_referenced_symbols", "read_source_code"}

\* C19: a path-bearing manager operation whose path is not in the
\* workspace's file list returns file-not-found, and nothing else: the
\* scanner, the analyzer and the file are not consulted for it.
C19_PathCheckedFirst ==
    (mgrCall.op \in PathBearing /\ mgrCall.mgr \in {"inproc", "wrapper"}
     /\ mgrCall.path \notin Files)
      => mgrCall.ret = "file_not_found"

\* the lines a..b of the call's file, a and b included
LinesOfRange ==
    SubSeq(mgrCall.input.lines, mgrCall.input.range.start + 1,
           mgrCall.input.range.end + 1)

\* C20: read_source_code of a readable workspace file with a range of
\* lines a <= b that exist in the file returns exactly the lines a to b,
\* both included, in the gateway handler and in the wrapper Manager.
C20_ReadsLinesInclusive ==
    (mgrCall.op = "read_source_code" /\ mgrCall.mgr \in {"gateway", "wrapper"}
     /\ mgrCall.path \in Files /\ mgrCall.input.readable
     /\ mgrCall.input.range # NoRange
     /\ mgrCall.input.range.start <= mgrCall.input.range.end
     /\ mgrCall.input.range.end < Len(mgrCall.input.lines))
      => (mgrCall.ret = "ok" /\ mgrCall.output = LinesOfRange)

\* C21: read_source_code of a path whose canonical location lies outside
\* the workspace root is rejected and returns none of the file's content,
\* in the gateway handler and in the wrapper Manager.
C21_TraversalRejected ==
    (mgrCall.op = "read_source_code" /\ mgrCall.mgr \in {"gateway", "wrapper"}
     /\ mgrCall.path = OutsidePath)
      => (mgrCall.ret # "ok" /\ mgrCall.output = << >>)

(***************************************************************************)
(* Claims about the gateway's endpoints.                                   *)
(***************************************************************************)

\* the status code of an answer of the gateway
HttpStatus(ret) ==
    CASE ret = "ok" -> 200
      [] ret = "bad_request" -> 400
      [] ret = "file_not_found" -> 404
      [] OTHER -> 500

\* C22: every gateway endpoint answers a request naming a file missing
\* from the workspace with 404 and a request with a bad path or of an
\* unsupported file type with a 4xx; no such client-identifiable mistake is
\* answered with a 5xx.
C22_StatusByErrorKind ==
    (mgrCall.mgr = "gateway" /\ mgrCall.ret # "none")
      => /\ mgrCall.path = MissingPath => HttpStatus(mgrCall.ret) = 404
         /\ mgrCall.path \in {OutsidePath, UnsupportedPath}
              => HttpStatus(mgrCall.ret) \in 400..499

(***************************************************************************)
(* Claims about the remote path.                                           *)
(***************************************************************************)

\* C23: for every find_referenced_symbols request that the wrapper answers
\* successfully, ContainerManager::find_referenced_symbols returns the list
\* of (scanner match, definition) pairs that the wrapper produced.
C23_RemoteReferencedSymbolsSame ==
    (mgrCall.op = "find_referenced_symbols" /\ mgrCall.mgr = "container"
     /\ mgrCall.input # << >> /\ mgrCall.input.delivered
     /\ mgrCall.input.reply.ret = "ok")
      => (mgrCall.ret = "ok" /\ mgrCall.output = mgrCall.input.reply.output)

\* C24: every request of the remote-analyzer client is addressed to the
\* endpoint stored in the container's record and uses a method and path
\* that the wrapper service serves.
C24_RequestsReachWrapperRoutes ==
    mgrCall.mgr = "http_client" =>
      LET target == ParseUrl(mgrCall.input.url) IN
        /\ target.host = ContainerHost
        /\ target.port = ToString(mgrCall.input.port)
        /\ \E w \in WrapperRoutes :
             w.method = mgrCall.input.method /\ <<w.path>> = target.path

(***************************************************************************)
(* Claims about ENABLED_LANGUAGES.                                         *)
(***************************************************************************)

\* the words that name a language in ENABLED_LANGUAGES
Names(l) ==
    CASE l = "python" -> {"python"}
      [] l = "ruby" -> {"ruby"}
      [] l = "ruby_sorbet" -> {"ruby_sorbet", "sorbet"}

\* the languages that a value of ENABLED_LANGUAGES names, whatever the
\* case of an entry and the white space around it
NamedLanguages(env) ==
    {l \in MgrLangs : \E i \in DOMAIN env : env[i].word \in Names(l)}

\* C25: when ENABLED_LANGUAGES is set, a start-up call starts no analyzer
\* client and no language container for a language it does not name, in
\* Manager::start_langservers, ContainerOrchestrator::initialize_workspace
\* and ContainerManager::start_containers.
C25_OnlyEnabledStarted ==
    (mgrCall.op \in {"start_langservers", "start_containers"}
     /\ mgrCall.input.env # Unset)
      => mgrCall.input.started \subseteq NamedLanguages(mgrCall.input.env)


\* C26: get_enabled_languages returns no restriction when ENABLED_LANGUAGES
\* is unset, and otherwise exactly the set of languages named by the valid
\* entries of the list: entries are trimmed and compared without regard to
\* case, aliases name one language, invalid entries are ignored, and an
\* empty or all-invalid list gives the empty set.
C26_EnabledLanguagesParsed ==
    mgrCall.op = "get_enabled_languages" =>
      /\ mgrCall.input = Unset => ~mgrCall.output.some
      /\ mgrCall.input # Unset =>
           /\ mgrCall.output.some
           /\ mgrCall.output.langs = NamedLanguages(mgrCall.input)

\* a list with an alias in upper case between white space and an entry
\* that names no language has given the alias's language alone
C26_Witness ==
    /\ mgrCall.op = "get_enabled_languages"
    /\ \E i \in DOMAIN mgrCall.input :
         mgrCall.input[i] = [word |-> "sorbet", upper |-> TRUE, padded |-> TRUE]
    /\ \E i \in DOMAIN mgrCall.input : mgrCall.input[i].word = "perl"
    /\ mgrCall.output = [some |-> TRUE, langs |-> {"ruby_sorbet"}]

(***************************************************************************)
(* Claims about the file searches.                                         *)
(***************************************************************************)

\* the set of paths the sequential search pushes for the call's arguments
SequentialPaths ==
    Range(PushAccepted(mgrCall.input,
                       Walk(mgrCall.input.tree, mgrCall.input.exclude, Root)))

\* the sets of paths the parallel search pushes for the call's arguments,
\* one for every order in which the visitors may get the entries
ParallelPaths ==
    {Range(PushAccepted(mgrCall.input, visits)) :
       visits \in OrdersOf({n \in Nodes :
                              Reached(mgrCall.input.tree, mgrCall.input.exclude, n)})}

\* C27: for every tree, include globs and exclude globs, and for kind File
\* and kind Dir, the sequential and the parallel search return the same set
\* of paths without duplicates; sorted, the vector of every run is the same.
C27_SearchesAgree ==
    mgrCall.op = "search_paths" =>
      /\ Range(mgrCall.output) = SequentialPaths
      /\ ParallelPaths = {Range(mgrCall.output)}
      /\ Len(mgrCall.output) = Cardinality(Range(mgrCall.output))
      /\ SortByKey(mgrCall.output, [n \in Nodes |-> n])
           = SetToSortedSeq(SequentialPaths)

\* a parallel search for directories has returned one path for two
\* matching files of one directory
C27_Witness ==
    /\ mgrCall.op = "search_paths"
    /\ mgrCall.mgr = "parallel"
    /\ mgrCall.input.file_type = "Dir"
    /\ \E m, n \in mgrCall.input.include \ mgrCall.input.exclude :
         /\ m # n
         /\ ~mgrCall.input.tree[m].dir /\ ~mgrCall.input.tree[n].dir
         /\ mgrCall.input.tree[m].parent = mgrCall.input.tree[n].parent
         /\ mgrCall.output = <<mgrCall.input.tree[m].parent>>


\* directory d lies below directory a
RECURSIVE Below(_, _, _)
Below(t, d, a) ==
    d # Root /\ (t[d].parent = a \/ Below(t, t[d].parent, a))

\* C28: with a go.work file at the workspace root find_workspace_folders
\* reports the root alone; for every tree it never reports a directory
\* that holds a go.work file together with a module directory below it;
\* with no marker at all it reports the root alone.
C28_OneFolderPerMultiModuleRoot ==
    mgrCall.op = "find_workspace_folders" =>
      /\ Root \in mgrCall.input.work => mgrCall.output = <<Root>>
      /\ ~\E w, m \in Range(mgrCall.output) :
            /\ w \in mgrCall.input.work
            /\ m \in mgrCall.input.mod
            /\ Below(mgrCall.input.tree, m, w)
      /\ (mgrCall.input.work = {} /\ mgrCall.input.mod = {})
           => mgrCall.output = <<Root>>

(***************************************************************************)
(* Claims about the writes and the reader of the analyzer session.         *)
(***************************************************************************)

\* the i-th message on stdin is a request whose id came from the counter
CounterId(i) ==
    /\ stdin[i].method # "initialized"
    /\ explicit[stdin[i].params] = NoId

\* C29: requests that obtained their ids from the request counter appear
\* on the analyzer's stdin in the order of their ids, each message whole
\* before the next, under every interleaving of the callers.
C29_WriteOrderFollowsIds ==
    \A i, j \in DOMAIN stdin :
      (i < j /\ CounterId(i) /\ CounterId(j)) => stdin[i].id < stdin[j].id

\* C30: when the reader task finds end-of-file on the child's stdout (the
\* child is gone and every frame it wrote has been read), the reader leaves
\* its read loop and stops; it does not go on reading the closed pipe.
C30_ReaderStopsAtEof ==
    [][(readerState = "running" /\ ~childAlive /\ stdout = << >>
        /\ readerState' # "running")
         => readerState' = "stopped"]_vars

(***************************************************************************)
(* The reader on malformed frames, abandoned requests and frames that      *)
(* answer no request.                                                      *)
(***************************************************************************)
\* C31: a header block with a missing, non-numeric or negative Content-Length
\* is fatal for the reader: the step that reads such a block ends the task,
\* it neither drops the bad header and goes on nor reads later bytes as a
\* new message.
C31_BadHeaderIsFatal ==
    [][(/\ readerState = "running"
        /\ stdout # << >>
        /\ Head(stdout).kind = "bad_length"
        /\ stdout' # stdout)
         => readerState' = "stopped"]_vars

\* a caller whose send_request was dropped before it returned
Abandoned(c) == outcome[c].kind = "abandoned"

\* C32: when the response to an abandoned request arrives, the reader takes
\* the entry out of the pending table, discards the response and goes on
\* routing; and the id of an abandoned request is never given to another
\* request of the session.
C32_AbandonedIdRetired ==
    /\ [][(/\ readerState = "running"
           /\ stdout # << >>
           /\ Head(stdout).id \in DOMAIN channels
           /\ Abandoned(channels[Head(stdout).id])
           /\ stdout' # stdout)
            => (/\ channels' = MapRemove(channels, Head(stdout).id)
                /\ mailbox' = mailbox
                /\ readerState' = "running")]_vars
    /\ [](\A c, d \in Users :
            (Abandoned(c) /\ reqId[c] # NoId /\ d # c) => reqId[d] # reqId[c])

\* the frame the reader is about to read is well-formed and has no id, or an
\* id the pending table has no entry for
UnroutedAtHead ==
    /\ readerState = "running"
    /\ stdout # << >>
    /\ Head(stdout).kind # "bad_length"
    /\ (Head(stdout).id = NoId \/ Head(stdout).id \notin DOMAIN channels)

\* C36: a message whose id has no entry in the pending table (a late or
\* unknown response, a request of the server's own) or that has no id (a
\* notification) is discarded: the reader's step on it leaves the table as
\* it was, completes no caller, and the reader goes on.
C36_UnroutedDiscarded ==
    [][(UnroutedAtHead /\ stdout' # stdout)
         => (/\ channels' = channels
             /\ mailbox' = mailbox
             /\ outcome' = outcome
             /\ pc' = pc
             /\ readerState' = "running")]_vars

\* two requests were written under one id and both were answered; the reader
\* has read both responses without ever losing the frame boundary, and the
\* caller whose entry was replaced still waits: the second response met no
\* entry and was dropped
C36_Witness ==
    /\ unsolicited = 0
    /\ readerState = "running"
    /\ stdout = << >>
    /\ \E i, j \in DOMAIN stdin :
         /\ i # j
         /\ stdin[i].id = stdin[j].id
         /\ {i, j} \subseteq answered
    /\ \E c \in Users : pc[c] = "waiting" /\ mailbox[c] = NoMsg /\ ~HasSender(c)

(***************************************************************************)
(* The stdin lock.                                                         *)
(***************************************************************************)
\* C34: the bytes of two messages written to the analyzer's stdin are never
\* interleaved: between two chunks of one message there is no chunk of
\* another message.
C34_MessagesContiguous ==
    \A i, j \in DOMAIN wire :
        (i < j /\ wire[i].of = wire[j].of)
            => \A k \in i..j : wire[k].of = wire[i].of

\* one caller has written the first part of its message and holds the lock
\* while another caller has registered and wants to write
C34_Witness ==
    \E c, d \in Users :
        /\ c # d
        /\ pc[c] = "writing"
        /\ pc[d] = "registered"
        /\ wire[Len(wire)] = [of |-> c, part |-> "head"]

\* C35: the reader task never holds the stdin lock, and whoever holds it is
\* in the middle of its write: no caller holds it while it waits for its
\* response, for another lock, or after it returned, so a waiting caller
\* never keeps another from writing and no task waits for a lock whose
\* holder waits itself.
C35_LockHeldOnlyWhileWriting ==
    /\ stdinLock # ReaderTask
    /\ stdinLock \in Callers \cup {Unlocked}
    /\ \A c \in Callers : stdinLock = c => pc[c] = "writing"

\* a caller waits for its response while another one holds the lock in the
\* middle of its write and the reader has a frame to route
C35_Witness ==
    \E c, d \in Users :
        /\ pc[c] = "waiting"
        /\ mailbox[c] = NoMsg
        /\ pc[d] = "writing"
        /\ stdinLock = d
        /\ stdout # << >>

\* the tick at which poll i starts when no earlier poll succeeds
RECURSIVE StartOf(_, _)
StartOf(polls, i) ==
    IF i = 1 THEN 0
    ELSE StartOf(polls, i - 1) + polls[i - 1].dur + PollSleep

\* the polls that start before the limit and answer with a success status
InTimeSuccesses(polls) ==
    {i \in DOMAIN polls :
        polls[i].result = "success" /\ StartOf(polls, i) < HealthTimeout}

HealthChecked ==
    mgrCall.op = "check_container_health" /\ mgrCall.mgr = "orchestrator"

\* C40: check_container_health returns success at the first poll that
\* answers with a success status, having polled again after every status
\* that is no success and every connection error; when no poll that starts
\* within the limit succeeds it ends once the limit has elapsed, with a
\* health-check error that carries the log lines, or the placeholder when
\* there are none.
C40_HealthCheckPolls ==
    HealthChecked =>
        LET polls == mgrCall.input.polls
            r == mgrCall.output
            S == InTimeSuccesses(polls) IN
          IF S # {}
          THEN /\ r.ret = "ok"
               /\ r.polled \in S
               /\ \A i \in S : r.polled <= i
          ELSE /\ r.ret = "health_check"
               /\ r.elapsed >= HealthTimeout
               /\ r.elapsed < HealthTimeout + PollTimeout + PollSleep
               /\ r.message = (IF mgrCall.input.logs = NoLogs
                               THEN "Could not retrieve logs"
                               ELSE mgrCall.input.logs)

\* a check that succeeded at its third poll, after a status that is no
\* success and a connection error
C40_Witness ==
    /\ HealthChecked
    /\ mgrCall.ret = "ok"
    /\ mgrCall.output.polled = 3
    /\ mgrCall.input.polls[1].result = "status"
    /\ mgrCall.input.polls[2].result = "error"

(***************************************************************************)
(* Containers, their records and the HTTP clients.                         *)
(***************************************************************************)
\* a task is inside spawn_container or stop_container with container c
InHand(c) == \E t \in Tasks : task[t].cid = c

\* C37: every container the orchestrator has created and not removed, and
\* that no running spawn or stop call still has in hand, is recorded in the
\* container map under its language, so that cleanup_all removes it.
C37_CreatedContainersRecorded ==
    \A c \in DOMAIN docker :
        (docker[c].status # "removed" /\ ~InHand(c))
            => containers[docker[c].lang].cid = c

\* C38: a language that has an HTTP client in ContainerManager has a
\* container record in the orchestrator, and no get_client call fails
\* because it found a client without a record.
C38_ClientImpliesRecord ==
    /\ \A l \in http_clients : containers[l] # NoRecord
    /\ \A t \in Tasks :
         task[t].op = "get_client" => task[t].ret # "err_no_client"

\* C39: for an existing file and any range, read_source_code of the gateway
\* and of the wrapper ends with text or with an error result, never with a
\* panic: a start line after the end line, a start line past the end of the
\* file and a range on an empty file are all answered.
C39_ReadNeverPanics ==
    (/\ mgrCall.op = "read_source_code"
     /\ mgrCall.mgr \in {"gateway", "wrapper"}
     /\ mgrCall.path \in Files)
        => mgrCall.ret \in {"ok", "bad_request", "internal_error"}

\* the task is suspended: its next step is a lock it waits for or an await
Suspended ==
    /\ mgrCall.mgr = "locks"
    /\ mgrCall.ret = "running"
    /\ mgrCall.input.steps[mgrCall.output.at].do \in {"lock", "await"}

\* C33: a task suspended at a lock, at an analyzer response or at a
\* container's HTTP response holds no lock; the only lock held at a
\* suspension is the stdin lock, while the message is written to the pipe.
C33_NoLockAcrossSuspension ==
    Suspended =>
        mgrCall.output.held \subseteq
            (IF mgrCall.input.steps[mgrCall.output.at] = Await("pipe")
             THEN {"stdin"} ELSE {})

====
